---- MODULE Spec2Model ----
(***************************************************************************)
(* Boundary-hierarchy resolver of 4-AerialPhotoOrganizer.py: the two KML   *)
(* parsing strategies (parse_kml_standard, parse_kml_nested), the overlap  *)
(* linker inside parse_kml_standard and the tiered point resolver          *)
(* find_region_for_point, and the photo loop of organize_photos that calls *)
(* both.                                                                   *)
(*                                                                         *)
(* Texts are strings of a small alphabet; the conversions int(), float()   *)
(* and strip() are tables over that alphabet.  Coordinates are integers    *)
(* (degrees scaled so that every vertex and query point is integral), and  *)
(* areas are kept doubled so the shoelace sum stays integral.  Chinese     *)
(* literals of the source are written in pinyin.                           *)
(***************************************************************************)
EXTENDS Integers, Sequences, FiniteSets, TLC

VARIABLES
    mode,              \* parse_mode argument of parse_kml
    doc,               \* the boundary document at kml_path (element tree)
    pc,                \* position inside parse_kml
    regions_by_level,  \* the forest: level -> sequence of Regions
    i,                 \* index of the loop the parser is in
    log,               \* messages printed by the parser, in order
    point,             \* argument of the running find_region_for_point call
    qpc,               \* position inside find_region_for_point
    district,          \* result variables of find_region_for_point
    town,
    village,
    scanned,           \* tiers whose bucket the running call has iterated
    previous,          \* forests returned by the earlier parse_kml calls
    source,            \* files under source_dir, in os.walk order
    photo_files,       \* organize_photos: the files the scan kept
    opc,               \* position inside organize_photos
    processed,         \* organize_photos: counters
    with_gps,
    matched,
    copies,            \* files written so far: <<index of the photo, directory>>
    lookups,           \* find_region_for_point calls so far: <<index, point>>
    report,            \* the counts printed after the loop
    rdf_pc,            \* position inside remove_different_files
    folder1,           \* the directory at folder1_path: existence, entries
    folder2,           \* the directory at folder2_path
    backup_dir,        \* argument of remove_different_files: None or a path
    dry_run,           \* argument of remove_different_files
    backup_tree,       \* what exists under backup_dir
    locked,            \* files on which unlink and move raise
    stem_to_files1,    \* remove_different_files: result of the two scans
    stem_to_files2,
    failed,            \* files whose removal raised, as printed
    before1,           \* files of the two folders when the call started
    before2,
    prune_pc,          \* position inside 2-remove_zero_kb_files
    labels_dir,        \* the labels folder: file name -> size in bytes
    images_dir,        \* the names in the images folder
    unchecked_dir,     \* the undetected folder: existence, names
    listing,           \* the result of os.listdir(labels_dir)
    label_at,          \* index of label_file in the listing
    labels_before,     \* the labels and images folders when the script started
    images_before,
    gui_run,           \* YOLOVisualizerGUI: runs started so far
    processing,        \* self.processing
    stop_progress_update,
    progress_queue,    \* self.progress_queue: <<current, total>> items
    progress_bar,      \* self.progress_bar["value"]
    tk_events,         \* callbacks posted with root.after(0, ...), in order
    worker,            \* the process_dataset_thread thread
    loop_threads,      \* the progress_update_loop thread of each run
    succeeded,         \* processing_completed(True) ran and no run started since
    root               \* self.root: in mainloop, in the askyesno dialog of
                       \* on_closing, in the warning question of
                       \* start_processing, or destroyed

vars == <<mode, doc, pc, regions_by_level, i, log,
          point, qpc, district, town, village, scanned,
          previous, source, photo_files, opc, processed, with_gps, matched,
          copies, lookups, report,
          rdf_pc, folder1, folder2, backup_dir, dry_run, backup_tree, locked,
          stem_to_files1, stem_to_files2, failed, before1, before2,
          prune_pc, labels_dir, images_dir, unchecked_dir, listing, label_at,
          labels_before, images_before,
          gui_run, processing, stop_progress_update, progress_queue,
          progress_bar, tk_events, worker, loop_threads, succeeded,
          root>>

parse_vars == <<mode, doc, pc, regions_by_level, i, log>>
query_vars == <<point, qpc, district, town, village, scanned>>
organize_vars == <<source, photo_files, opc, processed, with_gps, matched,
                   copies, lookups, report>>
remove_vars == <<rdf_pc, folder1, folder2, backup_dir, dry_run, backup_tree,
                 locked, stem_to_files1, stem_to_files2, failed, before1,
                 before2>>
prune_vars == <<prune_pc, labels_dir, images_dir, unchecked_dir, listing,
                label_at, labels_before, images_before>>
gui_vars == <<gui_run, processing, stop_progress_update, progress_queue,
              progress_bar, tk_events, worker, loop_threads, succeeded,
              root>>
\* the state of the other scripts of the repository
script_vars == <<remove_vars, prune_vars, gui_vars>>
caller_vars == <<previous, organize_vars, script_vars>>
\* the state of 4-AerialPhotoOrganizer
organizer_vars == <<parse_vars, query_vars, previous, organize_vars>>

-----------------------------------------------------------------------------
(* Bounds of the model *)

\* most elements (Folders and Placemarks together) in one document
MaxElems == 3

-----------------------------------------------------------------------------
(* Text conversions *)

\* element absent, or present with empty text (both falsy in the source)
NoText == ""

Digits == <<"0", "1", "2", "3", "4", "5", "6", "7", "8", "9",
            "10", "11", "12", "13", "14", "15">>

IsFloat(t) == \E n \in 1..Len(Digits) : Digits[n] = t

\* float(text) for the texts that do not raise ValueError
float(t) == (CHOOSE n \in 1..Len(Digits) : Digits[n] = t) - 1

\* int(text): ok = FALSE stands for ValueError
int(t) ==
    IF t \in {"0", "1", "2", "3", "4"}
    THEN [ok |-> TRUE, val |-> float(t)]
    ELSE [ok |-> FALSE, val |-> 0]

\* str.strip(): the only text with surrounding blanks in the alphabet is " "
strip(t) == IF t = " " THEN "" ELSE t

-----------------------------------------------------------------------------
(* Geometry: shapely Polygon / Point predicates on integer coordinates.     *)
(* A polygon is the sequence of its vertices (the ring is closed            *)
(* implicitly); the empty sequence stands for polygon = None.               *)

NoPolygon == <<>>

Min(a, b) == IF a < b THEN a ELSE b
Max(a, b) == IF a > b THEN a ELSE b
Abs(a) == IF a < 0 THEN -a ELSE a

Nxt(poly, k) == poly[(k % Len(poly)) + 1]

Cross(a, b, p) == (b[1] - a[1]) * (p[2] - a[2]) - (b[2] - a[2]) * (p[1] - a[1])

OnSegment(a, b, p) ==
    /\ Cross(a, b, p) = 0
    /\ Min(a[1], b[1]) <= p[1] /\ p[1] <= Max(a[1], b[1])
    /\ Min(a[2], b[2]) <= p[2] /\ p[2] <= Max(a[2], b[2])

\* Polygon.touches(Point): the point lies on the boundary ring
touches(poly, p) ==
    \E k \in 1..Len(poly) : OnSegment(poly[k], Nxt(poly, k), p)

\* edges crossed by the ray from p towards +x (even-odd rule)
Crossing(a, b, p) ==
    /\ (a[2] > p[2]) # (b[2] > p[2])
    /\ IF b[2] > a[2]
       THEN (p[1] - a[1]) * (b[2] - a[2]) < (p[2] - a[2]) * (b[1] - a[1])
       ELSE (p[1] - a[1]) * (b[2] - a[2]) > (p[2] - a[2]) * (b[1] - a[1])

\* Polygon.contains(Point): the point lies in the interior
contains(poly, p) ==
    /\ ~touches(poly, p)
    /\ Cardinality({k \in 1..Len(poly) : Crossing(poly[k], Nxt(poly, k), p)}) % 2 = 1

\* Polygon.intersects(Point): interior or boundary
intersects(poly, p) == contains(poly, p) \/ touches(poly, p)

RECURSIVE Shoelace(_, _)
Shoelace(poly, k) ==
    IF k > Len(poly) THEN 0
    ELSE poly[k][1] * Nxt(poly, k)[2] - Nxt(poly, k)[1] * poly[k][2]
         + Shoelace(poly, k + 1)

\* twice Polygon.area
area2(poly) == Abs(Shoelace(poly, 1))

\* Bounding box; the polygons that reach the linker are axis-aligned
\* rectangles, for which the box is the polygon itself.
Xs(poly) == {poly[k][1] : k \in 1..Len(poly)}
Ys(poly) == {poly[k][2] : k \in 1..Len(poly)}
Lo(S) == CHOOSE m \in S : \A n \in S : m <= n
Hi(S) == CHOOSE m \in S : \A n \in S : m >= n

IsRectangle(poly) ==
    /\ Len(poly) >= 4
    /\ \A k \in 1..Len(poly) :
          /\ poly[k][1] \in {Lo(Xs(poly)), Hi(Xs(poly))}
          /\ poly[k][2] \in {Lo(Ys(poly)), Hi(Ys(poly))}
    /\ area2(poly) = 2 * (Hi(Xs(poly)) - Lo(Xs(poly))) * (Hi(Ys(poly)) - Lo(Ys(poly)))

OverlapX(p, q) == Min(Hi(Xs(p)), Hi(Xs(q))) - Max(Lo(Xs(p)), Lo(Xs(q)))
OverlapY(p, q) == Min(Hi(Ys(p)), Hi(Ys(q))) - Max(Lo(Ys(p)), Lo(Ys(q)))

\* Polygon.intersects(Polygon) for rectangles: closed sets share a point
poly_intersects(p, q) == OverlapX(p, q) >= 0 /\ OverlapY(p, q) >= 0

\* twice Polygon.intersection(Polygon).area for rectangles
intersection_area2(p, q) ==
    IF poly_intersects(p, q) THEN 2 * OverlapX(p, q) * OverlapY(p, q) ELSE 0

-----------------------------------------------------------------------------
(* The boundary document.  An element is a Placemark or a Folder:           *)
(*   names  its name and n children in document order, each as             *)
(*          <<tag, text>> (text NoText: the child is empty)                 *)
(*   width  text of Style/LineStyle/width (NoText: absent or empty)         *)
(*   coords texts of its coordinates descendants in document order; a text  *)
(*          is the sequence of its blank-separated tokens and a token the   *)
(*          sequence of its comma-separated parts                           *)
(*   items  the Placemark children of a Folder                              *)

ElemNamed(tag, names, width, coords) ==
    [tag |-> tag, names |-> names, width |-> width, coords |-> coords,
     items |-> <<>>]

\* an element with one name child
Elem(tag, name, width, coords) ==
    ElemNamed(tag, <<<<"name", name>>>>, width, coords)

Tok(x, y) == <<Digits[x + 1], Digits[y + 1]>>

RectText(x1, y1, x2, y2) == <<Tok(x1, y1), Tok(x2, y1), Tok(x2, y2), Tok(x1, y2)>>

\* tokens that yield no point: float() raises, or fewer than two parts
BadLon == <<"x", "1">>
BadLat == <<"1", "abc">>
OnePart == <<"3">>
WithAlt(x, y) == <<Digits[x + 1], Digits[y + 1], "0">>

PmD1 == Elem("Placemark", "D1", "3", <<RectText(0, 0, 4, 4)>>)
PmD2 == Elem("Placemark", "D2", "3", <<RectText(4, 0, 8, 4)>>)
PmT1 == Elem("Placemark", "T1", "2", <<RectText(2, 0, 6, 4)>>)
PmT2 == Elem("Placemark", "T2", "2", <<RectText(2, 0, 8, 4)>>)
PmV2 == Elem("Placemark", "V2", "1",
             <<<<WithAlt(4, 0), BadLon, Tok(6, 0), OnePart, Tok(6, 2), BadLat, Tok(4, 2)>>>>)
\* V3: the first coordinates element gives two points only, a second one
\* holds a full ring
PmV3 == Elem("Placemark", "V3", "1",
             <<<<Tok(2, 0), BadLon, Tok(4, 2), OnePart>>, RectText(2, 0, 4, 2)>>)
\* V2 with a blank coordinates element ahead of the ring
PmV2E == Elem("Placemark", "V2", "1",
              <<<<>>,
                <<WithAlt(4, 0), BadLon, Tok(6, 0), OnePart, Tok(6, 2), BadLat, Tok(4, 2)>>>>)
PmNoName == Elem("Placemark", NoText, "1", <<RectText(4, 0, 6, 2)>>)
PmBlank == Elem("Placemark", " ", "2", <<>>)
PmW4 == Elem("Placemark", "W4", "4", <<RectText(0, 0, 4, 4)>>)
PmW20 == Elem("Placemark", "W20", "2.0", <<RectText(2, 0, 6, 4)>>)
PmTri == Elem("Placemark", "Village 1", NoText, <<<<Tok(0, 0), Tok(15, 0), Tok(0, 15)>>>>)
FolderA == Elem("Folder", "Town A", NoText, <<>>)
FolderNoName == Elem("Folder", NoText, NoText, <<>>)
\* elements with several name fields: a blank or empty name child ahead of
\* an n child, and an n child ahead of a name child
FolderB == ElemNamed("Folder", <<<<"name", " ">>, <<"n", "Town B">>>>, NoText, <<>>)
PmV4 == ElemNamed("Placemark", <<<<"name", NoText>>, <<"n", "V4">>>>, "1",
                  <<RectText(4, 2, 6, 4)>>)
PmV5 == ElemNamed("Placemark", <<<<"n", "V5n">>, <<"name", "V5">>>>, "1",
                  <<RectText(2, 2, 4, 4)>>)

StandardMenu ==
    {PmD1, PmD2, PmT1, PmT2, PmV2, PmV3,
     PmNoName, PmBlank, PmW4, PmW20, PmTri, FolderA}

NestedMenu == {FolderA, FolderNoName, PmTri, PmV2E, PmV3, PmBlank}

SeqsUpTo(S, n) == UNION {[1..k -> S] : k \in 0..n}

\* The element tree of a document written as the flat sequence es: a
\* Placemark that follows a Folder start is a child of that Folder.
RECURSIVE Tree(_, _)
Tree(es, acc) ==
    IF es = <<>> THEN acc
    ELSE LET e == Head(es)
             n == Len(acc)
         IN  IF e.tag = "Placemark" /\ n > 0 /\ acc[n].tag = "Folder"
             THEN Tree(Tail(es), [acc EXCEPT ![n].items = Append(@, e)])
             ELSE Tree(Tail(es), Append(acc, e))

\* wellformed: ET.parse succeeds;  document: a Document element exists;
\* names: texts of the name/n children of the Document;  items: the
\* Folder and Placemark children of the Document (of the root without one)
Doc(wf, document, names, items) ==
    [wellformed |-> wf, document |-> document, names |-> names, items |-> items]

Modes == {"standard", "nested"}

\* <<a Document element exists, texts of its name fields>>
NestedHeaders ==
    {<<TRUE, <<"Yihedui">>>>,
     <<TRUE, <<"A zhen", "Yihedui">>>>,
     <<TRUE, <<" ", "B cun", "A zhen">>>>,
     <<TRUE, <<" ">>>>,
     <<TRUE, <<>>>>,
     <<FALSE, <<>>>>}

\* documents with a District, a Town that links to it, a Town that links to
\* no District and a Village inside both Towns
LongDocuments ==
    {<<PmD1, PmT1, PmT2, PmV2>>, <<PmD1, PmT2, PmT1, PmV2>>}

\* documents whose elements carry several name fields
NamedTwiceDocuments ==
    {<<FolderB, PmV4>>, <<FolderB, PmV5, PmV4>>, <<FolderA, PmV4, PmV5>>,
     <<PmV4>>, <<PmV5>>, <<PmD1, PmV5>>}

Inputs ==
    {<<"standard", Doc(TRUE, TRUE, <<"Yihedui">>, Tree(es, <<>>))>> :
        es \in SeqsUpTo(StandardMenu, MaxElems)}
    \cup
    {<<"nested", Doc(TRUE, h[1], h[2], Tree(es, <<>>))>> :
        h \in NestedHeaders, es \in SeqsUpTo(NestedMenu, MaxElems)}
    \cup
    {<<m, Doc(FALSE, FALSE, <<>>, <<>>)>> : m \in Modes}
    \cup
    {<<"standard", Doc(TRUE, TRUE, <<"Yihedui">>, Tree(es, <<>>))>> :
        es \in LongDocuments}
    \cup
    {<<m, Doc(TRUE, TRUE, <<"Yihedui">>, Tree(es, <<>>))>> :
        m \in Modes, es \in NamedTwiceDocuments}

QueryPoints == {<<1, 1>>, <<3, 3>>, <<4, 1>>, <<9, 9>>}

-----------------------------------------------------------------------------
(* Regions *)

Ref(level, idx) == [level |-> level, idx |-> idx]
NoRef == Ref(0, 0)

\* AdministrativeRegion.__init__; district is the attribute the standard
\* linker sets on a Village (NoRef: never set)
AdministrativeRegion(name, level, polygon) ==
    [name |-> name, level |-> level, polygon |-> polygon,
     parent |-> NoRef, children |-> <<>>, district |-> NoRef]

EmptyForest == [l \in 1..3 |-> <<>>]

RegionAt(forest, ref) == forest[ref.level][ref.idx]

InSeq(x, s) == \E k \in 1..Len(s) : s[k] = x

\* Polygon(coords) of the valid points of a coordinate text
valid_point(tok) == Len(tok) >= 2 /\ IsFloat(tok[1]) /\ IsFloat(tok[2])

\* variant: the first bad token ends the loop instead of being skipped
RECURSIVE parse_coordinates_abort(_)
parse_coordinates_abort(coords_text) ==
    IF coords_text = <<>> \/ ~valid_point(Head(coords_text)) THEN <<>>
    ELSE <<<<float(Head(coords_text)[1]), float(Head(coords_text)[2])>>>>
         \o parse_coordinates_abort(Tail(coords_text))

parse_coordinates(coords_text) ==
    LET ok == SelectSeq(coords_text, valid_point)
    IN  [k \in 1..Len(ok) |-> <<float(ok[k][1]), float(ok[k][2])>>]

\* the coordinate loop written inline in parse_kml_standard
standard_coords(coords_text) ==
    LET ok == SelectSeq(coords_text, valid_point)
    IN  [k \in 1..Len(ok) |-> <<float(ok[k][1]), float(ok[k][2])>>]

\* root.findall('.//kml:Placemark'): every Placemark, at any depth, in
\* document order
RECURSIVE Placemarks(_)
Placemarks(items) ==
    IF items = <<>> THEN <<>>
    ELSE LET e == Head(items)
         IN  (IF e.tag = "Placemark" THEN <<e>> ELSE e.items)
             \o Placemarks(Tail(items))

-----------------------------------------------------------------------------
(* Messages printed by the parser *)

MsgParsing == "zhengzai jiexi KML wenjian"
MsgError == "jiexi KML wenjian chucuo"
MsgDone == "jiexi wancheng!"
MsgNoDocument == "jinggao: wei zhaodao Document yuansu"
MsgDefaultDistrict == "shiyong moren xianshiji: weizhi xian"
MsgSkipFolder == "tiaoguo wu mingcheng Folder"

\* most parse_kml calls on one document
MaxCalls == 2

UnknownDistrict == "weizhi xian"

-----------------------------------------------------------------------------
(* parse_kml *)

\* parse_kml is entered with one of the arguments of inputs
ParseStart(inputs) ==
    /\ \E inp \in inputs : mode = inp[1] /\ doc = inp[2]
    /\ pc = "parse_kml"
    /\ regions_by_level = EmptyForest
    /\ i = 1
    /\ log = <<>>

\* no find_region_for_point call is running
QueryIdle ==
    /\ point = <<0, 0>>
    /\ qpc = "idle"
    /\ district = NoRef
    /\ town = NoRef
    /\ village = NoRef
    /\ scanned = {}

\* parse_kml is not called from organize_photos
OrganizeOff ==
    /\ source = <<>>
    /\ photo_files = <<>>
    /\ opc = "off"
    /\ processed = 0
    /\ with_gps = 0
    /\ matched = 0
    /\ copies = <<>>
    /\ lookups = <<>>
    /\ report = <<>>

\* a directory that does not exist
NoFolder == [exists |-> FALSE, files |-> {}, dirs |-> {}]

\* remove_different_files is not called
RemoveOff ==
    /\ rdf_pc = "off"
    /\ folder1 = NoFolder
    /\ folder2 = NoFolder
    /\ backup_dir = <<>>
    /\ dry_run = FALSE
    /\ backup_tree = [dirs |-> {}, folder1_removed |-> {},
                      folder2_removed |-> {}]
    /\ locked = {}
    /\ stem_to_files1 = <<>>
    /\ stem_to_files2 = <<>>
    /\ failed = {}
    /\ before1 = {}
    /\ before2 = {}

\* 2-remove_zero_kb_files is not run
PruneOff ==
    /\ prune_pc = "off"
    /\ labels_dir = <<>>
    /\ images_dir = {}
    /\ unchecked_dir = NoFolder
    /\ listing = <<>>
    /\ label_at = 1
    /\ labels_before = <<>>
    /\ images_before = {}

\* a thread that was not started
NoThread == [pc |-> "unborn", percent |-> 0]

\* 3-draw_yolo_boxes_gui is not run
GuiOff ==
    /\ gui_run = 0
    /\ processing = FALSE
    /\ stop_progress_update = FALSE
    /\ progress_queue = <<>>
    /\ progress_bar = 0
    /\ tk_events = <<>>
    /\ worker = [pc |-> "unborn", total |-> 0, done |-> 0,
                 processed_count |-> 0]
    /\ loop_threads = <<>>
    /\ succeeded = FALSE
    /\ root = "mainloop"

\* none of the other scripts runs
ScriptsOff ==
    /\ RemoveOff
    /\ PruneOff
    /\ GuiOff

Init ==
    /\ ParseStart(Inputs)
    /\ QueryIdle
    /\ previous = <<>>
    /\ OrganizeOff
    /\ ScriptsOff

\* variant: the handler returns the empty forest without reporting
ParseFailureSilent ==
    /\ pc = "parse_kml"
    /\ ~doc.wellformed
    /\ log' = Append(log, MsgParsing)
    /\ regions_by_level' = EmptyForest
    /\ pc' = "returned"
    /\ UNCHANGED <<mode, doc, i>>
    /\ UNCHANGED <<query_vars, caller_vars>>

\* ET.parse raises in either parser: the handler reports and returns the
\* empty forest
ParseFailure ==
    /\ pc = "parse_kml"
    /\ ~doc.wellformed
    /\ log' = log \o <<MsgParsing, MsgError>>
    /\ regions_by_level' = EmptyForest
    /\ pc' = "returned"
    /\ UNCHANGED <<mode, doc, i>>
    /\ UNCHANGED <<query_vars, caller_vars>>

-----------------------------------------------------------------------------
(* parse_kml_standard *)

\* variant: the buckets outlive the call, so a later call appends to the
\* Regions of the earlier one
StandardBeginSharedBuckets ==
    /\ pc = "parse_kml"
    /\ mode # "nested"
    /\ doc.wellformed
    /\ log' = Append(log, MsgParsing)
    /\ regions_by_level' = regions_by_level
    /\ i' = 1
    /\ pc' = "placemarks"
    /\ UNCHANGED <<mode, doc>>
    /\ UNCHANGED <<query_vars, caller_vars>>

StandardBegin ==
    /\ pc = "parse_kml"
    /\ mode # "nested"
    /\ doc.wellformed
    /\ log' = Append(log, MsgParsing)
    /\ regions_by_level' = EmptyForest
    /\ i' = 1
    /\ pc' = "placemarks"
    /\ UNCHANGED <<mode, doc>>
    /\ UNCHANGED <<query_vars, caller_vars>>

\* placemark.find('./kml:name').text: the text of the first name child;
\* NoText: no such child, or it is empty
find_name(e) ==
    LET ks == {k \in 1..Len(e.names) : e.names[k][1] = "name"}
    IN  IF ks = {} THEN NoText ELSE e.names[Lo(ks)][2]

\* variant: a width that selects no level falls back to the Village level
read_placemark_default_level(forest, pm) ==
    IF find_name(pm) = NoText THEN forest
    ELSE IF pm.width = NoText THEN forest
    ELSE LET name == strip(find_name(pm))
             level == IF int(pm.width).ok /\ int(pm.width).val \in {1, 2, 3}
                      THEN int(pm.width).val ELSE 1
             coords == IF pm.coords = <<>> THEN <<>> ELSE standard_coords(pm.coords[1])
         IN  [forest EXCEPT ![level] =
                 Append(@, AdministrativeRegion(name, level,
                               IF Len(coords) >= 3 THEN coords ELSE NoPolygon))]

\* one iteration of the Placemark loop: the forest after the element pm
read_placemark(forest, pm) ==
    IF find_name(pm) = NoText THEN forest
    ELSE IF pm.width = NoText THEN forest
    ELSE IF ~int(pm.width).ok THEN forest
    ELSE IF int(pm.width).val \notin {1, 2, 3} THEN forest
    ELSE LET name == strip(find_name(pm))
             level == int(pm.width).val
         IN  IF pm.coords = <<>> \/ pm.coords[1] = <<>>
             THEN [forest EXCEPT ![level] =
                      Append(@, AdministrativeRegion(name, level, NoPolygon))]
             ELSE LET coords == standard_coords(pm.coords[1])
                  IN  IF Len(coords) >= 3
                      THEN [forest EXCEPT ![level] =
                               Append(@, AdministrativeRegion(name, level, coords))]
                      ELSE [forest EXCEPT ![level] =
                               Append(@, AdministrativeRegion(name, level, NoPolygon))]

StandardPlacemark ==
    /\ pc = "placemarks"
    /\ i <= Len(Placemarks(doc.items))
    /\ regions_by_level' = read_placemark(regions_by_level, Placemarks(doc.items)[i])
    /\ i' = i + 1
    /\ UNCHANGED <<mode, doc, pc, log>>
    /\ UNCHANGED <<query_vars, caller_vars>>

StandardPlacemarksDone ==
    /\ pc = "placemarks"
    /\ i > Len(Placemarks(doc.items))
    /\ pc' = "link_towns"
    /\ i' = 1
    /\ UNCHANGED <<mode, doc, regions_by_level, log>>
    /\ UNCHANGED <<query_vars, caller_vars>>

\* variant: the threshold is strict, an overlap of exactly half does not link
overlap_ok_strict(finer, coarser) ==
    area2(finer.polygon) < 2 * intersection_area2(finer.polygon, coarser.polygon)

\* finer.polygon.area * 0.5 <= finer.polygon.intersection(coarser.polygon).area
overlap_ok(finer, coarser) ==
    area2(finer.polygon) <= 2 * intersection_area2(finer.polygon, coarser.polygon)

\* the condition under which the linker links finer to coarser
qualifies(finer, coarser) ==
    /\ finer.polygon # NoPolygon
    /\ coarser.polygon # NoPolygon
    /\ poly_intersects(finer.polygon, coarser.polygon)
    /\ overlap_ok(finer, coarser)

\* variant: the inner loop runs over the Town bucket instead of the Districts
RECURSIVE link_town_wrong_bucket(_, _, _)
link_town_wrong_bucket(forest, t, d) ==
    IF d > Len(forest[2]) THEN forest
    ELSE IF qualifies(forest[2][t], forest[2][d])
         THEN link_town_wrong_bucket(
                  [forest EXCEPT
                      ![2][t].parent = Ref(2, d),
                      ![2][d].children =
                          IF InSeq(Ref(2, t), @) THEN @ ELSE Append(@, Ref(2, t))],
                  t, d + 1)
         ELSE link_town_wrong_bucket(forest, t, d + 1)

\* variant: only the first District of the bucket is tried
link_town_first_only(forest, t, d) ==
    IF d > 1 \/ forest[3] = <<>> THEN forest
    ELSE IF qualifies(forest[2][t], forest[3][1])
         THEN [forest EXCEPT
                  ![2][t].parent = Ref(3, 1),
                  ![3][1].children =
                      IF InSeq(Ref(2, t), @) THEN @ ELSE Append(@, Ref(2, t))]
         ELSE forest

\* the district loop for town t, from district d on
RECURSIVE link_town(_, _, _)
link_town(forest, t, d) ==
    IF d > Len(forest[3]) THEN forest
    ELSE IF qualifies(forest[2][t], forest[3][d])
         THEN link_town([forest EXCEPT
                            ![2][t].parent = Ref(3, d),
                            ![3][d].children =
                                IF InSeq(Ref(2, t), @) THEN @ ELSE Append(@, Ref(2, t))],
                        t, d + 1)
         ELSE link_town(forest, t, d + 1)

\* the town loop for village v, from town t on
RECURSIVE link_village(_, _, _)
link_village(forest, v, t) ==
    IF t > Len(forest[2]) THEN forest
    ELSE IF qualifies(forest[1][v], forest[2][t])
         THEN link_village([forest EXCEPT
                               ![1][v].parent = Ref(2, t),
                               ![2][t].children =
                                   IF InSeq(Ref(1, v), @) THEN @ ELSE Append(@, Ref(1, v)),
                               ![1][v].district =
                                   IF forest[2][t].parent # NoRef
                                   THEN forest[2][t].parent ELSE @],
                           v, t + 1)
         ELSE link_village(forest, v, t + 1)

LinkTown ==
    /\ pc = "link_towns"
    /\ i <= Len(regions_by_level[2])
    /\ regions_by_level' = link_town(regions_by_level, i, 1)
    /\ i' = i + 1
    /\ UNCHANGED <<mode, doc, pc, log>>
    /\ UNCHANGED <<query_vars, caller_vars>>

LinkTownsDone ==
    /\ pc = "link_towns"
    /\ i > Len(regions_by_level[2])
    /\ pc' = "link_villages"
    /\ i' = 1
    /\ UNCHANGED <<mode, doc, regions_by_level, log>>
    /\ UNCHANGED <<query_vars, caller_vars>>

LinkVillage ==
    /\ pc = "link_villages"
    /\ i <= Len(regions_by_level[1])
    /\ regions_by_level' = link_village(regions_by_level, i, 1)
    /\ i' = i + 1
    /\ UNCHANGED <<mode, doc, pc, log>>
    /\ UNCHANGED <<query_vars, caller_vars>>

StandardReturn ==
    /\ pc = "link_villages"
    /\ i > Len(regions_by_level[1])
    /\ log' = Append(log, MsgDone)
    /\ pc' = "returned"
    /\ UNCHANGED <<mode, doc, regions_by_level, i>>
    /\ UNCHANGED <<query_vars, caller_vars>>

-----------------------------------------------------------------------------
(* parse_kml_nested *)

\* texts that contain one of the substrings xiang / zhen / cun
TownishTexts == {"A zhen", "B cun", "C xiang"}

contains_townish(txt) == txt \in TownishTexts

nonblank(txt) == txt # NoText /\ strip(txt) # ""

\* variant: the first non-blank name field is taken whatever it contains
district_name_first(names) ==
    LET cand == SelectSeq(names, nonblank)
    IN  IF cand # <<>> THEN strip(cand[1]) ELSE NoText

\* the District name chosen from the name fields under the Document;
\* NoText: none found (the placeholder is used)
district_name(names) ==
    LET cand == SelectSeq(names, nonblank)
        plain == {k \in 1..Len(cand) : ~contains_townish(strip(cand[k]))}
    IN  IF plain # {} THEN strip(cand[Lo(plain)])
        ELSE IF cand # <<>> THEN strip(cand[1])
        ELSE NoText

\* variant: every non-blank name field under the Document yields a District
district_regions_per_name(names) ==
    LET cand == SelectSeq(names, nonblank)
    IN  IF cand = <<>> THEN <<AdministrativeRegion(UnknownDistrict, 3, NoPolygon)>>
        ELSE [k \in 1..Len(cand) |-> AdministrativeRegion(strip(cand[k]), 3, NoPolygon)]

\* the District bucket after the Document's name fields have been read
district_regions(names) ==
    LET found == district_name(names)
        name == IF found = NoText THEN UnknownDistrict ELSE found
    IN  <<AdministrativeRegion(name, 3, NoPolygon)>>

NestedNoDocument ==
    /\ pc = "parse_kml"
    /\ mode = "nested"
    /\ doc.wellformed
    /\ ~doc.document
    /\ log' = log \o <<MsgParsing, MsgNoDocument>>
    /\ regions_by_level' = EmptyForest
    /\ pc' = "returned"
    /\ UNCHANGED <<mode, doc, i>>
    /\ UNCHANGED <<query_vars, caller_vars>>

NestedBegin ==
    /\ pc = "parse_kml"
    /\ mode = "nested"
    /\ doc.wellformed
    /\ doc.document
    /\ log' = IF district_name(doc.names) = NoText
              THEN log \o <<MsgParsing, MsgDefaultDistrict>>
              ELSE Append(log, MsgParsing)
    /\ regions_by_level' = [EmptyForest EXCEPT ![3] = district_regions(doc.names)]
    /\ i' = 1
    /\ pc' = "folders"
    /\ UNCHANGED <<mode, doc>>
    /\ UNCHANGED <<query_vars, caller_vars>>

\* variant: a coordinates element that gives fewer than 3 points is passed
\* over for a later one
first_coords_usable(texts) ==
    LET full == SelectSeq(texts, LAMBDA t : Len(parse_coordinates(t)) >= 3)
    IN  IF full = <<>> THEN <<>> ELSE full[1]

\* text of the first coordinates element whose stripped text is not empty
first_coords(texts) ==
    LET full == SelectSeq(texts, LAMBDA t : t # <<>>)
    IN  IF full = <<>> THEN <<>> ELSE full[1]

\* the loop over the name and n children of a Folder or Placemark: the
\* text of the first whose stripped text is not empty; NoText: none
first_name(names) ==
    LET ks == {k \in 1..Len(names) : nonblank(names[k][2])}
    IN  IF ks = {} THEN NoText ELSE names[Lo(ks)][2]

\* variant: every Village is hung under the first Town of the forest
read_village_first_town(forest, t, pm) ==
    IF first_name(pm.names) = NoText THEN forest
    ELSE LET v == Len(forest[1]) + 1
             coords_text == first_coords(pm.coords)
             coords == parse_coordinates(coords_text)
             polygon == IF coords_text # <<>> /\ Len(coords) >= 3
                        THEN coords ELSE NoPolygon
             region == [AdministrativeRegion(strip(first_name(pm.names)), 1, polygon)
                           EXCEPT !.parent = Ref(2, 1)]
         IN  [forest EXCEPT ![2][1].children = Append(@, Ref(1, v)),
                            ![1] = Append(@, region)]

\* one iteration of the Placemark loop of the Folder whose Town is town t
read_village(forest, t, pm) ==
    IF first_name(pm.names) = NoText THEN forest
    ELSE LET v == Len(forest[1]) + 1
             coords_text == first_coords(pm.coords)
             coords == parse_coordinates(coords_text)
             polygon == IF coords_text # <<>> /\ Len(coords) >= 3
                        THEN coords ELSE NoPolygon
             region == [AdministrativeRegion(strip(first_name(pm.names)), 1, polygon)
                           EXCEPT !.parent = Ref(2, t)]
         IN  [forest EXCEPT ![2][t].children = Append(@, Ref(1, v)),
                            ![1] = Append(@, region)]

RECURSIVE read_villages(_, _, _)
read_villages(forest, t, pms) ==
    IF pms = <<>> THEN forest
    ELSE read_villages(read_village(forest, t, Head(pms)), t, Tail(pms))

\* one iteration of the loop over the children of the Document
read_folder(forest, e) ==
    IF e.tag # "Folder" THEN forest
    ELSE IF first_name(e.names) = NoText THEN forest
    ELSE LET t == Len(forest[2]) + 1
             region == [AdministrativeRegion(strip(first_name(e.names)), 2, NoPolygon)
                           EXCEPT !.parent = Ref(3, 1)]
             withTown == [forest EXCEPT ![3][1].children = Append(@, Ref(2, t)),
                                        ![2] = Append(@, region)]
         IN  read_villages(withTown, t, e.items)

NestedChild ==
    /\ pc = "folders"
    /\ i <= Len(doc.items)
    /\ regions_by_level' = read_folder(regions_by_level, doc.items[i])
    /\ log' = IF doc.items[i].tag = "Folder" /\ first_name(doc.items[i].names) = NoText
              THEN Append(log, MsgSkipFolder) ELSE log
    /\ i' = i + 1
    /\ UNCHANGED <<mode, doc, pc>>
    /\ UNCHANGED <<query_vars, caller_vars>>

NestedReturn ==
    /\ pc = "folders"
    /\ i > Len(doc.items)
    /\ log' = Append(log, MsgDone)
    /\ pc' = "returned"
    /\ UNCHANGED <<mode, doc, regions_by_level, i>>
    /\ UNCHANGED <<query_vars, caller_vars>>

-----------------------------------------------------------------------------
(* find_region_for_point *)

\* variant: a Region without polygon is accepted instead of skipped
matches_boundaryless(region, p) ==
    \/ region.polygon = NoPolygon
    \/ contains(region.polygon, p)
    \/ touches(region.polygon, p)
    \/ intersects(region.polygon, p)

\* the three-predicate test of one Region of a tier
matches(region, p) ==
    /\ region.polygon # NoPolygon
    /\ \/ contains(region.polygon, p)
       \/ touches(region.polygon, p)
       \/ intersects(region.polygon, p)

\* variant: when no Region of the bucket matches, the first Region that has
\* a polygon is taken as the nearest one
first_match_or_nearest(bucket, p) ==
    LET hits == {k \in 1..Len(bucket) : matches(bucket[k], p)}
        shaped == {k \in 1..Len(bucket) : bucket[k].polygon # NoPolygon}
    IN  IF hits # {} THEN Lo(hits)
        ELSE IF shaped # {} THEN Lo(shaped) ELSE 0

\* variant: the loop over the bucket does not break, the last match stays
first_match_last(bucket, p) ==
    LET hits == {k \in 1..Len(bucket) : matches(bucket[k], p)}
    IN  IF hits = {} THEN 0 ELSE Hi(hits)

\* index of the Region at which the loop over the bucket breaks; 0: no break
first_match(bucket, p) ==
    LET hits == {k \in 1..Len(bucket) : matches(bucket[k], p)}
    IN  IF hits = {} THEN 0 ELSE Lo(hits)

StartQuery ==
    /\ pc = "returned"
    /\ qpc \in {"idle", "done"}
    /\ \E p \in QueryPoints : point' = p
    /\ district' = NoRef
    /\ town' = NoRef
    /\ village' = NoRef
    /\ scanned' = {}
    /\ qpc' = "village"
    /\ UNCHANGED <<parse_vars, caller_vars>>

\* variant: the District is not derived from the Town
village_hit_no_district(forest, v) ==
    [village |-> Ref(1, v), town |-> forest[1][v].parent, district |-> NoRef]

\* variant: a Village match returns the Village without its ancestry
village_hit_village_only(forest, v) ==
    [village |-> Ref(1, v), town |-> NoRef, district |-> NoRef]

\* the assignments made when Village v matches
village_hit(forest, v) ==
    LET t == forest[1][v].parent
    IN  [village |-> Ref(1, v),
         town |-> t,
         district |-> IF t # NoRef /\ RegionAt(forest, t).parent # NoRef
                      THEN RegionAt(forest, t).parent ELSE NoRef]

\* the assignments made when Town t matches
town_hit(forest, t) ==
    [town |-> Ref(2, t), district |-> forest[2][t].parent]

\* variant: the Village tier stores the District it derived in the Village
VillageTierCaching ==
    /\ qpc = "village"
    /\ scanned' = scanned \cup {1}
    /\ LET v == first_match(regions_by_level[1], point)
       IN  IF v = 0
           THEN UNCHANGED <<district, town, village, regions_by_level>>
           ELSE /\ village' = village_hit(regions_by_level, v).village
                /\ town' = village_hit(regions_by_level, v).town
                /\ district' = village_hit(regions_by_level, v).district
                /\ regions_by_level' =
                       [regions_by_level EXCEPT
                           ![1][v].district = village_hit(regions_by_level, v).district]
    /\ qpc' = "town"
    /\ UNCHANGED point
    /\ UNCHANGED <<mode, doc, pc, i, log, caller_vars>>

VillageTier ==
    /\ qpc = "village"
    /\ scanned' = scanned \cup {1}
    /\ LET v == first_match(regions_by_level[1], point)
       IN  IF v = 0
           THEN UNCHANGED <<district, town, village>>
           ELSE /\ village' = village_hit(regions_by_level, v).village
                /\ town' = village_hit(regions_by_level, v).town
                /\ district' = village_hit(regions_by_level, v).district
    /\ qpc' = "town"
    /\ UNCHANGED point
    /\ UNCHANGED <<parse_vars, caller_vars>>

\* variant: the Town tier is entered whatever the Village tier found
town_tier_always(d, t, v) == TRUE

\* the guard of the Town tier
town_tier_entered(d, t, v) == v = NoRef

TownTier ==
    /\ qpc = "town"
    /\ IF town_tier_entered(district, town, village)
       THEN /\ scanned' = scanned \cup {2}
            /\ LET t == first_match(regions_by_level[2], point)
               IN  IF t = 0
                   THEN UNCHANGED <<district, town>>
                   ELSE /\ town' = town_hit(regions_by_level, t).town
                        /\ district' = town_hit(regions_by_level, t).district
       ELSE UNCHANGED <<district, town, scanned>>
    /\ qpc' = "district"
    /\ UNCHANGED <<point, village>>
    /\ UNCHANGED <<parse_vars, caller_vars>>

\* variant: the District tier is never entered
district_tier_never(d, t, v) == FALSE

\* the guard of the District tier
district_tier_entered(d, t, v) == v = NoRef /\ t = NoRef

DistrictTier ==
    /\ qpc = "district"
    /\ IF district_tier_entered(district, town, village)
       THEN /\ scanned' = scanned \cup {3}
            /\ LET d == first_match(regions_by_level[3], point)
               IN  IF d = 0
                   THEN UNCHANGED district
                   ELSE district' = Ref(3, d)
       ELSE UNCHANGED <<district, scanned>>
    /\ qpc' = "done"
    /\ UNCHANGED <<point, town, village>>
    /\ UNCHANGED <<parse_vars, caller_vars>>

\* the whole call: the result after the three tiers
find_region_for_point(p, forest) ==
    LET v == first_match(forest[1], p)
        r1 == IF v = 0
              THEN [village |-> NoRef, town |-> NoRef, district |-> NoRef]
              ELSE village_hit(forest, v)
        t == first_match(forest[2], p)
        r2 == IF town_tier_entered(r1.district, r1.town, r1.village) /\ t # 0
              THEN [r1 EXCEPT !.town = town_hit(forest, t).town,
                              !.district = town_hit(forest, t).district]
              ELSE r1
        d == first_match(forest[3], p)
    IN  IF district_tier_entered(r2.district, r2.town, r2.village) /\ d # 0
        THEN [r2 EXCEPT !.district = Ref(3, d)]
        ELSE r2

-----------------------------------------------------------------------------
(* organize_photos *)

\* most files under source_dir
MaxPhotos == 2

\* PhotoInfo.lat / PhotoInfo.lon: None when the EXIF data gave no value,
\* the degrees otherwise
None == <<>>
Degrees(x) == <<x>>

\* a file under source_dir: its name and the latitude and longitude that
\* extract_exif_with_piexif returns for it
File(name, lat, lon) == [name |-> name, lat |-> lat, lon |-> lon]

FileMenu ==
    {File("a.jpg", None, Degrees(1)),
     File("b.JPG", Degrees(1), None),
     File("c.tif", Degrees(1), Degrees(1)),
     File("d.png", Degrees(1), Degrees(4)),
     File("notes.txt", None, None)}

\* os.path.splitext(file)[1]
splitext_ext(name) ==
    CASE name = "a.jpg" -> ".jpg"
      [] name = "b.JPG" -> ".JPG"
      [] name = "c.tif" -> ".tif"
      [] name = "d.png" -> ".png"
      [] name = "notes.txt" -> ".txt"

\* str.lower() on the extensions of the alphabet
lower(ext) == IF ext = ".JPG" THEN ".jpg" ELSE ext

SUPPORTED_IMAGE_EXTENSIONS == {".jpg", ".jpeg", ".png", ".tiff", ".tif"}

\* the boundary documents organize_photos is run with
OrganizeInputs ==
    {<<"standard", Doc(TRUE, TRUE, <<"Yihedui">>, Tree(es, <<>>))>> :
        es \in {<<PmD1, PmT1, PmV2>>, <<PmD1, PmT1>>, <<PmD1, PmT2>>,
                <<PmT1, PmV2>>, <<PmV2>>, <<PmD1>>}}
    \cup
    {<<"nested", Doc(TRUE, h[1], h[2], Tree(<<FolderA, PmTri>>, <<>>))>> :
        h \in {<<TRUE, <<"Yihedui">>>>, <<TRUE, <<>>>>, <<FALSE, <<>>>>}}
    \cup
    {<<"standard", Doc(FALSE, FALSE, <<>>, <<>>)>>}

InitOrganize ==
    /\ ParseStart(OrganizeInputs)
    /\ QueryIdle
    /\ previous = <<>>
    /\ source \in SeqsUpTo(FileMenu, MaxPhotos)
    /\ photo_files = <<>>
    /\ opc = "parse_kml"
    /\ processed = 0
    /\ with_gps = 0
    /\ matched = 0
    /\ copies = <<>>
    /\ lookups = <<>>
    /\ report = <<>>
    /\ ScriptsOff

\* variant: photos without coordinate share the directory of the photos
\* that matched no boundary
no_gps_dir_unmatched == <<"weipipei xingzhengquhua">>

\* the two fixed directories, as path components below target_dir
no_gps_dir == <<"wu GPS xinxi">>
unmatched_dir == <<"weipipei xingzhengquhua">>

\* variant: the scan and the photo loop start while parse_kml is still
\* running
OrganizeScanEager ==
    /\ opc = "parse_kml"
    /\ photo_files' =
           SelectSeq(source,
                     LAMBDA f : lower(splitext_ext(f.name)) \in SUPPORTED_IMAGE_EXTENSIONS)
    /\ processed' = 0
    /\ with_gps' = 0
    /\ matched' = 0
    /\ opc' = "loop"
    /\ UNCHANGED <<source, copies, lookups, report, previous>>
    /\ UNCHANGED <<parse_vars, query_vars, script_vars>>

\* the scan of source_dir: the files with a supported extension
OrganizeScan ==
    /\ opc = "parse_kml"
    /\ pc = "returned"
    /\ photo_files' =
           SelectSeq(source,
                     LAMBDA f : lower(splitext_ext(f.name)) \in SUPPORTED_IMAGE_EXTENSIONS)
    /\ processed' = 0
    /\ with_gps' = 0
    /\ matched' = 0
    /\ opc' = "loop"
    /\ UNCHANGED <<source, copies, lookups, report, previous>>
    /\ UNCHANGED <<parse_vars, query_vars, script_vars>>

\* the photo has no usable coordinate
no_gps(photo) == photo.lat = None \/ photo.lon = None

\* shapely Point(lon, lat)
Point(lon, lat) == <<lon[1], lat[1]>>

\* dest_dir chosen from the result of find_region_for_point
destination(r, forest) ==
    IF r.village # NoRef /\ r.town # NoRef /\ r.district # NoRef
    THEN <<RegionAt(forest, r.district).name, RegionAt(forest, r.town).name,
           RegionAt(forest, r.village).name>>
    ELSE IF r.town # NoRef /\ r.district # NoRef
    THEN <<RegionAt(forest, r.district).name, RegionAt(forest, r.town).name>>
    ELSE IF r.district # NoRef
    THEN <<RegionAt(forest, r.district).name>>
    ELSE unmatched_dir

\* variant: the loop stops one photo short
loop_finished_early(n, total) == n + 1 >= total

\* the for loop over photo_files has run out
loop_finished(n, total) == n = total

\* one iteration of the loop over photo_files
OrganizePhoto ==
    /\ opc = "loop"
    /\ ~loop_finished(processed, Len(photo_files))
    /\ processed' = processed + 1
    /\ LET k == processed + 1
           photo == photo_files[k]
       IN  IF no_gps(photo)
           THEN /\ copies' = Append(copies, [photo |-> k, dir |-> no_gps_dir,
                                             file |-> photo.name])
                /\ UNCHANGED <<with_gps, matched, lookups>>
           ELSE LET p == Point(photo.lon, photo.lat)
                    r == find_region_for_point(p, regions_by_level)
                IN  /\ with_gps' = with_gps + 1
                    /\ lookups' = Append(lookups, [photo |-> k, point |-> p])
                    /\ matched' = IF r.village # NoRef /\ r.town # NoRef
                                      /\ r.district # NoRef
                                  THEN matched + 1 ELSE matched
                    /\ copies' = Append(copies,
                                        [photo |-> k,
                                         dir |-> destination(r, regions_by_level),
                                         file |-> photo.name])
    /\ UNCHANGED <<source, photo_files, opc, report, previous>>
    /\ UNCHANGED <<parse_vars, query_vars, script_vars>>

\* the counts printed after the loop
OrganizeReport ==
    /\ opc = "loop"
    /\ loop_finished(processed, Len(photo_files))
    /\ report' = <<[total |-> Len(photo_files), with_gps |-> with_gps,
                    matched |-> matched]>>
    /\ opc' = "done"
    /\ UNCHANGED <<source, photo_files, processed, with_gps, matched,
                   copies, lookups, previous>>
    /\ UNCHANGED <<parse_vars, query_vars, script_vars>>

NextOrganize ==
    \/ ParseFailure
    \/ StandardBegin
    \/ StandardPlacemark
    \/ StandardPlacemarksDone
    \/ LinkTown
    \/ LinkTownsDone
    \/ LinkVillage
    \/ StandardReturn
    \/ NestedNoDocument
    \/ NestedBegin
    \/ NestedChild
    \/ NestedReturn
    \/ OrganizeScan
    \/ OrganizePhoto
    \/ OrganizeReport

SpecOrganize == InitOrganize /\ [][NextOrganize]_vars

\* organize_photos is one sequential call: it keeps running until it returns
FairSpecOrganize == SpecOrganize /\ WF_vars(NextOrganize)

-----------------------------------------------------------------------------
(* parse_kml_standard on a document and on a reordering of it *)

\* most Placemarks in a reordered document
MaxPermElems == 3

PermuteMenu == {PmD1, PmD2, PmT1, PmT2, PmV2}

\* standard-mode documents made of top-level Placemarks
PermuteInputs ==
    {<<"standard", Doc(TRUE, TRUE, <<"Yihedui">>, es)>> :
        es \in SeqsUpTo(PermuteMenu, MaxPermElems)}

InitPermute ==
    /\ ParseStart(PermuteInputs)
    /\ QueryIdle
    /\ previous = <<>>
    /\ OrganizeOff
    /\ ScriptsOff

\* the reorderings of the sequence s
Reorderings(s) ==
    {[k \in 1..Len(s) |-> s[f[k]]] : f \in Permutations(1..Len(s))}

\* the caller keeps the returned forest and calls parse_kml on a document
\* that holds the same Placemarks in another order
ParsePermuted ==
    /\ pc = "returned"
    /\ previous = <<>>
    /\ \E items \in Reorderings(doc.items) : doc' = [doc EXCEPT !.items = items]
    /\ previous' = <<regions_by_level>>
    /\ pc' = "parse_kml"
    /\ i' = 1
    /\ UNCHANGED <<mode, regions_by_level, log>>
    /\ UNCHANGED <<query_vars, organize_vars, script_vars>>

NextPermute ==
    \/ StandardBegin
    \/ StandardPlacemark
    \/ StandardPlacemarksDone
    \/ LinkTown
    \/ LinkTownsDone
    \/ LinkVillage
    \/ StandardReturn
    \/ ParsePermuted

SpecPermute == InitPermute /\ [][NextPermute]_vars

-----------------------------------------------------------------------------

\* remove_different_files.py: keep in two folders only the files whose name
\* stem occurs in both.

\* most files a folder holds at the start
MaxFiles == 2

\* 4-AerialPhotoOrganizer is not run
OrganizerOff ==
    /\ ParseStart({<<"standard", Doc(FALSE, FALSE, <<>>, <<>>)>>})
    /\ QueryIdle
    /\ previous = <<>>
    /\ OrganizeOff

\* file names, as the sequence of their parts between the dots:
\* a.jpg, a.txt, b.jpg, b.tar.gz, .c (a name that starts with its only dot)
NameMenu ==
    {<<"a", "jpg">>, <<"a", "txt">>, <<"b", "jpg">>, <<"b", "tar", "gz">>,
     <<"", "c">>}

\* a sub-directory an existing folder may hold: one named like a stem
DirMenu == {<<"a">>}

\* the folders the call can find at a path
FolderMenu ==
    {NoFolder}
    \cup
    {[exists |-> TRUE, files |-> fs, dirs |-> ds] :
        fs \in {x \in SUBSET NameMenu : Cardinality(x) <= MaxFiles},
        ds \in SUBSET DirMenu}

InitRemove ==
    /\ OrganizerOff
    /\ PruneOff
    /\ GuiOff
    /\ rdf_pc = "call"
    /\ folder1 \in FolderMenu
    /\ folder2 \in FolderMenu
    /\ backup_dir \in {None, <<"backup">>}
    /\ dry_run \in BOOLEAN
    /\ backup_tree = [dirs |-> {}, folder1_removed |-> {},
                      folder2_removed |-> {}]
    /\ locked \in {{}, {<<"b", "jpg">>}}
    /\ stem_to_files1 = <<>>
    /\ stem_to_files2 = <<>>
    /\ failed = {}
    /\ before1 = folder1.files
    /\ before2 = folder2.files

\* Path.stem: the name without its last suffix; a name whose only dot is
\* the first character, or that ends with a dot, has no suffix
stem(name) ==
    IF /\ Len(name) >= 2
       /\ name[Len(name)] # ""
       /\ ~(Len(name) = 2 /\ name[1] = "")
    THEN SubSeq(name, 1, Len(name) - 1)
    ELSE name

\* variant: the files are grouped by their whole name
get_file_info_by_name(folder) ==
    IF ~folder.exists
    THEN [s \in {} |-> {}]
    ELSE [s \in folder.files |-> {s}]

\* get_file_info: stem -> the names of the regular files with that stem
get_file_info(folder) ==
    IF ~folder.exists
    THEN [s \in {} |-> {}]
    ELSE [s \in {stem(n) : n \in folder.files} |->
             {n \in folder.files : stem(n) = s}]

files1 == DOMAIN stem_to_files1
files2 == DOMAIN stem_to_files2
common_files == files1 \cap files2
files_only_in_folder1 == files1 \ files2
files_only_in_folder2 == files2 \ files1

\* variant: the preview acts like a run
acts_always(dry) == TRUE

\* the guard "not dry_run" of the backup directories and of the two loops
acts(dry) == ~dry

\* the names the loop over the stems of one folder visits
visited(stem_to_files, stems) == UNION {stem_to_files[s] : s \in stems}

\* the existence checks: a missing folder ends the call
RdfCheck ==
    /\ rdf_pc = "call"
    /\ rdf_pc' = IF folder1.exists /\ folder2.exists THEN "scan" ELSE "done"
    /\ UNCHANGED <<folder1, folder2, backup_dir, dry_run, backup_tree, locked,
                   stem_to_files1, stem_to_files2, failed, before1, before2>>
    /\ UNCHANGED <<organizer_vars, prune_vars, gui_vars>>

\* the two scans, the three stem sets and the backup directories
RdfScan ==
    /\ rdf_pc = "scan"
    /\ stem_to_files1' = get_file_info(folder1)
    /\ stem_to_files2' = get_file_info(folder2)
    /\ backup_tree' =
           IF backup_dir # None /\ acts(dry_run)
           THEN [backup_tree EXCEPT
                    !.dirs = {"folder1_removed", "folder2_removed"}]
           ELSE backup_tree
    /\ rdf_pc' = "only1"
    /\ UNCHANGED <<folder1, folder2, backup_dir, dry_run, locked, failed,
                   before1, before2>>
    /\ UNCHANGED <<organizer_vars, prune_vars, gui_vars>>

\* the loop over the stems found in folder1 only; shutil.move of a file
\* that cannot be renamed or unlinked copies it to the backup folder before
\* it raises, so the file stays and its copy exists
RdfOnly1 ==
    /\ rdf_pc = "only1"
    /\ LET names == visited(stem_to_files1, files_only_in_folder1)
           gone == IF acts(dry_run) THEN names \ locked ELSE {}
           copied == IF acts(dry_run) THEN names ELSE {}
       IN  /\ folder1' = [folder1 EXCEPT !.files = @ \ gone]
           /\ backup_tree' =
                  IF backup_dir # None
                  THEN [backup_tree EXCEPT !.folder1_removed = @ \cup copied]
                  ELSE backup_tree
           /\ failed' =
                  IF acts(dry_run)
                  THEN failed \cup {<<1, n>> : n \in names \cap locked}
                  ELSE failed
    /\ rdf_pc' = "only2"
    /\ UNCHANGED <<folder2, backup_dir, dry_run, locked, stem_to_files1,
                   stem_to_files2, before1, before2>>
    /\ UNCHANGED <<organizer_vars, prune_vars, gui_vars>>

\* the loop over the stems found in folder2 only, as for folder1
RdfOnly2 ==
    /\ rdf_pc = "only2"
    /\ LET names == visited(stem_to_files2, files_only_in_folder2)
           gone == IF acts(dry_run) THEN names \ locked ELSE {}
           copied == IF acts(dry_run) THEN names ELSE {}
       IN  /\ folder2' = [folder2 EXCEPT !.files = @ \ gone]
           /\ backup_tree' =
                  IF backup_dir # None
                  THEN [backup_tree EXCEPT !.folder2_removed = @ \cup copied]
                  ELSE backup_tree
           /\ failed' =
                  IF acts(dry_run)
                  THEN failed \cup {<<2, n>> : n \in names \cap locked}
                  ELSE failed
    /\ rdf_pc' = "common"
    /\ UNCHANGED <<folder1, backup_dir, dry_run, locked, stem_to_files1,
                   stem_to_files2, before1, before2>>
    /\ UNCHANGED <<organizer_vars, prune_vars, gui_vars>>

\* the list of the kept stems and the closing messages
RdfFinish ==
    /\ rdf_pc = "common"
    /\ rdf_pc' = "done"
    /\ UNCHANGED <<folder1, folder2, backup_dir, dry_run, backup_tree, locked,
                   stem_to_files1, stem_to_files2, failed, before1, before2>>
    /\ UNCHANGED <<organizer_vars, prune_vars, gui_vars>>

NextRemove ==
    \/ RdfCheck
    \/ RdfScan
    \/ RdfOnly1
    \/ RdfOnly2
    \/ RdfFinish

SpecRemove == InitRemove /\ [][NextRemove]_vars

-----------------------------------------------------------------------------

\* 2-remove_zero_kb_files.py: delete the empty label files and move their
\* images to the undetected folder.

\* most files the labels folder and the images folder hold at the start
MaxLabels == 2
MaxImages == 3

\* names in the labels folder: a.txt, b.txt, .txt and a.jpg
LabelMenu ==
    {<<"a", "txt">>, <<"b", "txt">>, <<"", "txt">>, <<"a", "jpg">>}

\* sizes of a file, in bytes
Sizes == {0, 5}

\* names in the images folder: a.jpg, a.jpeg, a.png, b.png, c.jpg, .txt.jpg
ImageMenu ==
    {<<"a", "jpg">>, <<"a", "jpeg">>, <<"a", "png">>, <<"b", "png">>,
     <<"c", "jpg">>, <<"", "txt", "jpg">>}

InitPrune ==
    /\ OrganizerOff
    /\ RemoveOff
    /\ GuiOff
    /\ prune_pc = "start"
    /\ labels_dir \in
           UNION {[S -> Sizes] :
                     S \in {x \in SUBSET LabelMenu : Cardinality(x) <= MaxLabels}}
    /\ images_dir \in {x \in SUBSET ImageMenu : Cardinality(x) <= MaxImages}
    /\ unchecked_dir \in
           {NoFolder,
            [exists |-> TRUE, files |-> {}, dirs |-> {}],
            [exists |-> TRUE, files |-> {<<"a", "jpg">>}, dirs |-> {}]}
    /\ listing = <<>>
    /\ label_at = 1
    /\ labels_before = labels_dir
    /\ images_before = images_dir

\* label_file.endswith('.txt')
endswith_txt(name) == Len(name) >= 2 /\ name[Len(name)] = "txt"

\* os.path.splitext(name)[0]: the name up to its last dot; leading dots
\* start no extension
splitext_root(name) ==
    IF Len(name) >= 2 /\ \E k \in 1..(Len(name) - 1) : name[k] # ""
    THEN SubSeq(name, 1, Len(name) - 1)
    ELSE name

\* the extensions tried for the image of a label, in this order
image_exts == <<"jpg", "jpeg", "png">>

\* image_name + ext
image_file(image_name, ext) == Append(image_name, ext)

\* the extensions under which the image exists
existing(image_name, images) ==
    {k \in 1..Len(image_exts) : image_file(image_name, image_exts[k]) \in images}

\* variant: every existing image of the label is moved
moved_every(image_name, images) ==
    {image_file(image_name, image_exts[k]) : k \in existing(image_name, images)}

\* the inner loop: the first existing image is moved, then break
moved(image_name, images) ==
    LET ks == existing(image_name, images)
    IN  IF ks = {}
        THEN {}
        ELSE {image_file(image_name,
                         image_exts[CHOOSE k \in ks : \A j \in ks : k <= j])}

\* every order os.listdir can give the names
listdir(names) ==
    {s \in [1..Cardinality(names) -> names] :
        \A a, b \in 1..Cardinality(names) : a # b => s[a] # s[b]}

\* the undetected folder is made when it does not exist
PruneMkdir ==
    /\ prune_pc = "start"
    /\ unchecked_dir' = [unchecked_dir EXCEPT !.exists = TRUE]
    /\ prune_pc' = "listdir"
    /\ UNCHANGED <<labels_dir, images_dir, listing, label_at, labels_before,
                   images_before>>
    /\ UNCHANGED <<organizer_vars, remove_vars, gui_vars>>

\* os.listdir(labels_dir)
PruneList ==
    /\ prune_pc = "listdir"
    /\ listing' \in listdir(DOMAIN labels_dir)
    /\ label_at' = 1
    /\ prune_pc' = IF DOMAIN labels_dir = {} THEN "kml" ELSE "loop"
    /\ UNCHANGED <<labels_dir, images_dir, unchecked_dir, labels_before,
                   images_before>>
    /\ UNCHANGED <<organizer_vars, remove_vars, gui_vars>>

\* one iteration of the loop over the listing
PruneLabel ==
    /\ prune_pc = "loop"
    /\ LET label_file == listing[label_at]
           image_name == splitext_root(label_file)
           going == moved(image_name, images_dir)
       IN  IF endswith_txt(label_file) /\ labels_dir[label_file] = 0
           THEN /\ labels_dir' =
                       [n \in DOMAIN labels_dir \ {label_file} |-> labels_dir[n]]
                /\ images_dir' = images_dir \ going
                /\ unchecked_dir' =
                       [unchecked_dir EXCEPT !.files = @ \cup going]
           ELSE UNCHANGED <<labels_dir, images_dir, unchecked_dir>>
    /\ label_at' = label_at + 1
    /\ prune_pc' = IF label_at = Len(listing) THEN "kml" ELSE "loop"
    /\ UNCHANGED <<listing, labels_before, images_before>>
    /\ UNCHANGED <<organizer_vars, remove_vars, gui_vars>>

\* the files generate_kml writes into the images and the undetected folder
checked_kml == <<"checked", "kml">>
unchecked_kml == <<"unchecked", "kml">>

\* the end of the script: when piexif can be imported a KML file is
\* written into the images folder and one into the undetected folder
PruneKml ==
    /\ prune_pc = "kml"
    /\ \E piexif_available \in BOOLEAN :
           IF piexif_available
           THEN /\ images_dir' = images_dir \cup {checked_kml}
                /\ unchecked_dir' =
                       [unchecked_dir EXCEPT !.files = @ \cup {unchecked_kml}]
           ELSE UNCHANGED <<images_dir, unchecked_dir>>
    /\ prune_pc' = "done"
    /\ UNCHANGED <<labels_dir, listing, label_at, labels_before,
                   images_before>>
    /\ UNCHANGED <<organizer_vars, remove_vars, gui_vars>>

NextPrune ==
    \/ PruneMkdir
    \/ PruneList
    \/ PruneLabel
    \/ PruneKml

SpecPrune == InitPrune /\ [][NextPrune]_vars

-----------------------------------------------------------------------------

\* 3-draw_yolo_boxes_gui.py: the threads of a run and the Tk event loop.

\* most runs the user starts, most images in the images folder
MaxRuns == 1
MaxTotal == 1

\* the window after construction: nothing runs
InitGui ==
    /\ OrganizerOff
    /\ RemoveOff
    /\ PruneOff
    /\ gui_run = 0
    /\ processing = FALSE
    /\ stop_progress_update = FALSE
    /\ progress_queue = <<>>
    /\ progress_bar = 0
    /\ tk_events = <<>>
    /\ worker = [pc |-> "unborn", total |-> 0, done |-> 0,
                 processed_count |-> 0]
    /\ loop_threads = [r \in 1..MaxRuns |-> NoThread]
    /\ succeeded = FALSE
    /\ root = "mainloop"

\* Binary floating point with a 53-digit significand, as Python's float: a
\* number is its significand, most significant digit first, and the
\* exponent of its last digit.  Long numbers are handled in limbs so that
\* no intermediate value leaves the 32-bit integers.

\* n zeros
zeros(n) == [k \in 1..n |-> 0]

\* the n binary digits of v, v < 2^n
bits_of(v, n) == [k \in 1..n |-> (v \div (2 ^ (n - k))) % 2]

\* the value of a short sequence of binary digits
RECURSIVE to_int(_)
to_int(bits) ==
    IF bits = <<>> THEN 0
    ELSE 2 * to_int(SubSeq(bits, 1, Len(bits) - 1)) + bits[Len(bits)]

\* the digits without their leading zeros
strip_zeros(bits) ==
    LET ones == {k \in 1..Len(bits) : bits[k] = 1}
    IN  IF ones = {} THEN <<>>
        ELSE SubSeq(bits, CHOOSE k \in ones : \A j \in ones : k <= j, Len(bits))

\* the digits plus one
increment(bits) ==
    LET nulls == {k \in 1..Len(bits) : bits[k] = 0}
    IN  IF nulls = {} THEN <<1>> \o zeros(Len(bits))
        ELSE LET p == CHOOSE k \in nulls : \A j \in nulls : j <= k
             IN  SubSeq(bits, 1, p - 1) \o <<1>> \o zeros(Len(bits) - p)

\* the 16-digit limbs of the digits, most significant first
limbs_of(bits) ==
    LET n == (Len(bits) + 15) \div 16
        padded == zeros(16 * n - Len(bits)) \o bits
    IN  [k \in 1..n |-> to_int(SubSeq(padded, 16 * k - 15, 16 * k))]

\* the limbs times n plus a carry, n < 2^15
RECURSIVE times_limbs(_, _, _)
times_limbs(limbs, n, carry) ==
    IF limbs = <<>> THEN <<carry>>
    ELSE LET v == limbs[Len(limbs)] * n + carry
         IN  times_limbs(SubSeq(limbs, 1, Len(limbs) - 1), n, v \div 65536)
             \o <<v % 65536>>

\* the digits times the natural number n
times_int(bits, n) ==
    LET limbs == times_limbs(limbs_of(bits), n, 0)
    IN  strip_zeros([k \in 1..(16 * Len(limbs)) |->
                        bits_of(limbs[((k - 1) \div 16) + 1], 16)[((k - 1) % 16) + 1]])

\* rounding to 53 digits, ties to even; sticky: digits beyond the sequence
\* are not all zero.  dropped: by how much the exponent grows
round_half_even(bits, sticky) ==
    IF Len(bits) <= 53 THEN [bits |-> bits, dropped |-> 0]
    ELSE LET keep == SubSeq(bits, 1, 53)
             rest == SubSeq(bits, 54, Len(bits))
             more == sticky \/ \E k \in 2..Len(rest) : rest[k] = 1
             up == rest[1] = 1 /\ (more \/ keep[53] = 1)
             raised == increment(keep)
         IN  IF ~up THEN [bits |-> keep, dropped |-> Len(rest)]
             ELSE IF Len(raised) > 53
             THEN [bits |-> SubSeq(raised, 1, 53), dropped |-> Len(rest) + 1]
             ELSE [bits |-> raised, dropped |-> Len(rest)]

\* <<num', den', k>> with num / den = num' / den' * 2^k and
\* 1 <= num' / den' < 2
RECURSIVE normalised(_, _, _)
normalised(num, den, k) ==
    IF num < den THEN normalised(2 * num, den, k - 1)
    ELSE IF num >= 2 * den THEN normalised(num, 2 * den, k + 1)
    ELSE <<num, den, k>>

\* n further hexadecimal digits of r / den, r < den, followed by the
\* remainder
RECURSIVE long_division(_, _, _)
long_division(r, den, n) ==
    IF n = 0 THEN <<r>>
    ELSE <<(16 * r) \div den>> \o long_division((16 * r) % den, den, n - 1)

\* current / total for positive integers: the nearest float
true_divide(current, total) ==
    LET nm == normalised(current, total, 0)
        ld == long_division(nm[1] - nm[2], nm[2], 14)
        digits == [k \in 1..56 |->
                      bits_of(ld[((k - 1) \div 4) + 1], 4)[((k - 1) % 4) + 1]]
        rounded == round_half_even(<<1>> \o digits, ld[15] # 0)
    IN  [bits |-> rounded.bits, exp |-> nm[3] - 56 + rounded.dropped]

\* x * n for a float x and a natural number n < 2^15
float_times(x, n) ==
    LET rounded == round_half_even(times_int(x.bits, n), FALSE)
    IN  [bits |-> rounded.bits, exp |-> x.exp + rounded.dropped]

\* int(x) for a float x >= 0: the digits left of the binary point
float_int(x) ==
    IF x.exp >= 0 THEN to_int(x.bits \o zeros(x.exp))
    ELSE IF Len(x.bits) + x.exp <= 0 THEN 0
    ELSE to_int(SubSeq(x.bits, 1, Len(x.bits) + x.exp))

\* int(current / total * 100), in floating point: the quotient is rounded
\* before it is multiplied, so 29 of 100 gives 28
percent_of(current, total) ==
    IF current = 0 THEN 0
    ELSE float_int(float_times(true_divide(current, total), 100))

\* root.after(0, callback, arg); once the window is destroyed the call
\* raises and no callback is posted
after(events, callback, arg) ==
    IF root = "destroyed" THEN events ELSE Append(events, <<callback, arg>>)

\* lines 347-400 of start_processing: the bar and the queue are reset and
\* the two threads of the run are started; the folder holds total images
begin_run ==
    /\ gui_run' = gui_run + 1
    /\ progress_bar' = 0
    /\ stop_progress_update' = FALSE
    /\ progress_queue' = <<>>
    /\ processing' = TRUE
    /\ loop_threads' =
           [loop_threads EXCEPT ![gui_run + 1] = [pc |-> "while", percent |-> 0]]
    /\ \E total \in 0..MaxTotal :
           worker' = [pc |-> "scan", total |-> total, done |-> 0,
                      processed_count |-> 0]
    /\ succeeded' = FALSE
    /\ root' = "mainloop"

\* start_processing, run by the Tk thread on a click of the start button.
\* With images, labels and classes.txt in the folder the run begins at
\* once; when one of them is missing the warning question of line 343 is
\* opened first and nothing is written yet
StartProcessing ==
    /\ root = "mainloop"
    /\ ~processing
    /\ gui_run < MaxRuns
    /\ \E structure_valid \in BOOLEAN :
           IF structure_valid
           THEN begin_run
           ELSE /\ root' = "warning"
                /\ UNCHANGED <<gui_run, processing, stop_progress_update,
                               progress_queue, progress_bar, worker,
                               loop_threads, succeeded>>
    /\ UNCHANGED tk_events
    /\ UNCHANGED <<organizer_vars, remove_vars, prune_vars>>

\* the warning question of start_processing returns; while it was open its
\* event loop ran the posted callbacks and the threads of earlier runs went
\* on.  No: start_processing returns; yes: the run begins.  When the window
\* was closed during the question nothing is started
StartAnswer ==
    /\ root = "warning"
    /\ \E result \in BOOLEAN :
           IF result
           THEN begin_run
           ELSE /\ root' = "mainloop"
                /\ UNCHANGED <<gui_run, processing, stop_progress_update,
                               progress_queue, progress_bar, worker,
                               loop_threads, succeeded>>
    /\ UNCHANGED tk_events
    /\ UNCHANGED <<organizer_vars, remove_vars, prune_vars>>

\* progress_update_loop: the test of the while loop
LoopWhile(r) ==
    /\ loop_threads[r].pc = "while"
    /\ loop_threads' =
           [loop_threads EXCEPT
               ![r].pc = IF stop_progress_update THEN "dead" ELSE "poll"]
    /\ UNCHANGED <<gui_run, processing, stop_progress_update, progress_queue,
                   progress_bar, tk_events, worker, succeeded>>
    /\ UNCHANGED root
    /\ UNCHANGED <<organizer_vars, remove_vars, prune_vars>>

\* progress_update_loop: the test of progress_queue.empty(); an empty queue
\* leads to the sleep and back to the while test
LoopPoll(r) ==
    /\ loop_threads[r].pc = "poll"
    /\ loop_threads' =
           [loop_threads EXCEPT
               ![r].pc = IF progress_queue = <<>> THEN "while" ELSE "get"]
    /\ UNCHANGED <<gui_run, processing, stop_progress_update, progress_queue,
                   progress_bar, tk_events, worker, succeeded>>
    /\ UNCHANGED root
    /\ UNCHANGED <<organizer_vars, remove_vars, prune_vars>>

\* progress_update_loop: progress_queue.get(), which waits for an item, and
\* the percentage
LoopGet(r) ==
    /\ loop_threads[r].pc = "get"
    /\ progress_queue # <<>>
    /\ LET item == Head(progress_queue)
       IN  loop_threads' =
               [loop_threads EXCEPT
                   ![r] = IF item[2] > 0
                          THEN [pc |-> "after",
                                percent |-> percent_of(item[1], item[2])]
                          ELSE [pc |-> "while", percent |-> @.percent]]
    /\ progress_queue' = Tail(progress_queue)
    /\ UNCHANGED <<gui_run, processing, stop_progress_update, progress_bar,
                   tk_events, worker, succeeded>>
    /\ UNCHANGED root
    /\ UNCHANGED <<organizer_vars, remove_vars, prune_vars>>

\* progress_update_loop: root.after(0, self.update_progress_bar, percent),
\* then the sleep and back to the while test; an exception of the call is
\* caught in the loop, which sleeps and goes back to the while test too
LoopAfter(r) ==
    /\ loop_threads[r].pc = "after"
    /\ tk_events' =
           after(tk_events, "update_progress_bar", loop_threads[r].percent)
    /\ loop_threads' = [loop_threads EXCEPT ![r].pc = "while"]
    /\ UNCHANGED <<gui_run, processing, stop_progress_update, progress_queue,
                   progress_bar, worker, succeeded>>
    /\ UNCHANGED root
    /\ UNCHANGED <<organizer_vars, remove_vars, prune_vars>>

\* process_dataset_thread: the count of the images; none ends the run
WorkerScan ==
    /\ worker.pc = "scan"
    /\ IF worker.total = 0
       THEN /\ tk_events' = after(tk_events, "processing_completed", 0)
            /\ worker' = [worker EXCEPT !.pc = "dead"]
       ELSE /\ worker' = [worker EXCEPT !.pc = "call"]
            /\ UNCHANGED tk_events
    /\ UNCHANGED <<gui_run, processing, stop_progress_update, progress_queue,
                   progress_bar, loop_threads, succeeded>>
    /\ UNCHANGED root
    /\ UNCHANGED <<organizer_vars, remove_vars, prune_vars>>

\* process_dataset_thread: the arguments of the call of
\* process_with_progress; generate_csv_var.get() and generate_kml_var.get()
\* read the window and raise when it is destroyed, which ends the run in
\* the except clause
WorkerCall ==
    /\ worker.pc = "call"
    /\ worker' = [worker EXCEPT
                     !.pc = IF root = "destroyed" THEN "dead" ELSE "initial"]
    /\ tk_events' =
           IF root = "destroyed"
           THEN after(tk_events, "processing_completed", 0)
           ELSE tk_events
    /\ UNCHANGED <<gui_run, processing, stop_progress_update, progress_queue,
                   progress_bar, loop_threads, succeeded>>
    /\ UNCHANGED root
    /\ UNCHANGED <<organizer_vars, remove_vars, prune_vars>>

\* process_with_progress up to the initial progress, which does not look at
\* the window; a missing labels folder returns before the progress, and an
\* exception of the import or of the mkdir of the output folder ends the
\* run
WorkerInitial ==
    /\ worker.pc = "initial"
    /\ \E outcome \in {"progress", "no labels", "raised"} :
           /\ progress_queue' =
                  IF outcome = "progress"
                  THEN Append(progress_queue, <<0, worker.total>>)
                  ELSE progress_queue
           /\ tk_events' =
                  IF outcome = "raised"
                  THEN after(tk_events, "processing_completed", 0)
                  ELSE tk_events
           /\ worker' =
                  [worker EXCEPT
                      !.pc = CASE outcome = "progress" -> "loop"
                               [] outcome = "no labels" -> "finish"
                               [] outcome = "raised" -> "dead"]
    /\ UNCHANGED <<gui_run, processing, stop_progress_update, progress_bar,
                   loop_threads, succeeded>>
    /\ UNCHANGED root
    /\ UNCHANGED <<organizer_vars, remove_vars, prune_vars>>

\* process_with_progress: one image.  draw_boxes_on_image returns True or
\* False and the progress is put, or it raises: the loop is left without
\* a progress and the except clause of process_dataset_thread posts
\* processing_completed(False)
WorkerImage ==
    /\ worker.pc = "loop"
    /\ \E outcome \in {"drawn", "failed", "raised"} :
           LET count == worker.processed_count
                            + (IF outcome = "drawn" THEN 1 ELSE 0)
           IN  IF outcome = "raised"
               THEN /\ tk_events' = after(tk_events, "processing_completed", 0)
                    /\ worker' = [worker EXCEPT !.pc = "dead"]
                    /\ UNCHANGED progress_queue
               ELSE /\ progress_queue' =
                           Append(progress_queue, <<count, worker.total>>)
                    /\ worker' =
                           [worker EXCEPT
                               !.processed_count = count,
                               !.done = @ + 1,
                               !.pc = IF worker.done + 1 = worker.total
                                      THEN "finish" ELSE "loop"]
                    /\ UNCHANGED tk_events
    /\ UNCHANGED <<gui_run, processing, stop_progress_update, progress_bar,
                   loop_threads, succeeded>>
    /\ UNCHANGED root
    /\ UNCHANGED <<organizer_vars, remove_vars, prune_vars>>

\* the end of process_with_progress (the CSV and KML steps catch their own
\* exceptions) and the posting of processing_completed(True)
WorkerFinish ==
    /\ worker.pc = "finish"
    /\ tk_events' = after(tk_events, "processing_completed", 1)
    /\ worker' = [worker EXCEPT !.pc = "dead"]
    /\ UNCHANGED <<gui_run, processing, stop_progress_update, progress_queue,
                   progress_bar, loop_threads, succeeded>>
    /\ UNCHANGED root
    /\ UNCHANGED <<organizer_vars, remove_vars, prune_vars>>

\* update_progress_bar(percent)
update_progress_bar(percent) ==
    /\ progress_bar' = percent
    /\ UNCHANGED <<processing, stop_progress_update, succeeded>>

\* processing_completed(success): success is 1 for True, 0 for False
processing_completed(success) ==
    /\ stop_progress_update' = TRUE
    /\ progress_bar' = IF success = 1 THEN 100 ELSE progress_bar
    /\ processing' = FALSE
    /\ succeeded' = (success = 1)

\* the Tk event loop, or the event loop of an open question, runs the
\* oldest posted callback
TkRun ==
    /\ root # "destroyed"
    /\ tk_events # <<>>
    /\ LET event == Head(tk_events)
       IN  IF event[1] = "update_progress_bar"
           THEN update_progress_bar(event[2])
           ELSE processing_completed(event[2])
    /\ tk_events' = Tail(tk_events)
    /\ UNCHANGED <<gui_run, progress_queue, worker, loop_threads>>
    /\ UNCHANGED root
    /\ UNCHANGED <<organizer_vars, remove_vars, prune_vars>>

\* lines 611-620 of on_closing: the stop flag is set and root.destroy()
\* drops the callbacks still posted
close_window ==
    /\ stop_progress_update' = TRUE
    /\ tk_events' = <<>>
    /\ root' = "destroyed"

\* on_closing, run by the Tk event loop, or by the event loop of an open
\* question, when the user closes the window: during a run it opens the
\* askyesno dialog (one more when one is open already), otherwise it
\* closes the window at once.  The two threads are daemon threads and go
\* on until the process ends
on_closing ==
    /\ root # "destroyed"
    /\ IF processing
       THEN /\ root' = "askyesno"
            /\ UNCHANGED <<stop_progress_update, tk_events>>
       ELSE close_window
    /\ UNCHANGED <<gui_run, processing, progress_queue, progress_bar, worker,
                   loop_threads, succeeded>>
    /\ UNCHANGED <<organizer_vars, remove_vars, prune_vars>>

\* the askyesno dialog of on_closing returns; while it was open its event
\* loop ran the posted callbacks and the threads went on.  No: on_closing
\* returns; yes: the window is closed, whatever self.processing is by now
askyesno ==
    /\ root = "askyesno"
    /\ \E result \in BOOLEAN :
           IF result
           THEN close_window
           ELSE /\ root' = "mainloop"
                /\ UNCHANGED <<stop_progress_update, tk_events>>
    /\ UNCHANGED <<gui_run, processing, progress_queue, progress_bar, worker,
                   loop_threads, succeeded>>
    /\ UNCHANGED <<organizer_vars, remove_vars, prune_vars>>

\* the Cancel button, command=self.root.destroy: the window is destroyed
\* with its posted callbacks, without a question and without the stop flag
cancel_button ==
    /\ root = "mainloop"
    /\ root' = "destroyed"
    /\ tk_events' = <<>>
    /\ UNCHANGED <<gui_run, processing, stop_progress_update, progress_queue,
                   progress_bar, worker, loop_threads, succeeded>>
    /\ UNCHANGED <<organizer_vars, remove_vars, prune_vars>>

NextGui ==
    \/ StartProcessing
    \/ StartAnswer
    \/ \E r \in 1..MaxRuns : LoopWhile(r)
    \/ \E r \in 1..MaxRuns : LoopPoll(r)
    \/ \E r \in 1..MaxRuns : LoopGet(r)
    \/ \E r \in 1..MaxRuns : LoopAfter(r)
    \/ WorkerScan
    \/ WorkerCall
    \/ WorkerInitial
    \/ WorkerImage
    \/ WorkerFinish
    \/ TkRun
    \/ on_closing
    \/ askyesno
    \/ cancel_button

SpecGui == InitGui /\ [][NextGui]_vars

-----------------------------------------------------------------------------

Next ==
    \/ ParseFailure
    \/ StandardBegin
    \/ StandardPlacemark
    \/ StandardPlacemarksDone
    \/ LinkTown
    \/ LinkTownsDone
    \/ LinkVillage
    \/ StandardReturn
    \/ NestedNoDocument
    \/ NestedBegin
    \/ NestedChild
    \/ NestedReturn
    \/ StartQuery
    \/ VillageTier
    \/ TownTier
    \/ DistrictTier

Spec == Init /\ [][Next]_vars

-----------------------------------------------------------------------------
(* Properties of find_region_for_point *)

Forest == regions_by_level

Refs(l) == {Ref(l, k) : k \in 1..Len(Forest[l])}

\* the Region has a polygon and the point lies in it or on its boundary
PointIn(ref) ==
    /\ RegionAt(Forest, ref).polygon # NoPolygon
    /\ intersects(RegionAt(Forest, ref).polygon, point)

\* C1: the Town bucket is scanned only while no Village has matched and the
\* District bucket only while neither a Village nor a Town has matched; once
\* a Village has matched, the later tiers leave the result of the call as
\* the Village tier set it.
C1_TiersGated ==
    /\ [](/\ 2 \in scanned => village = NoRef
          /\ 3 \in scanned => village = NoRef /\ town = NoRef)
    /\ [][village # NoRef /\ qpc' # "village" =>
             village' = village /\ town' = town /\ district' = district]_vars

\* a Village matched although a Town and a District polygon hold the point too
C1_Witness ==
    /\ qpc = "done"
    /\ village # NoRef
    /\ scanned = {1}
    /\ \E t \in Refs(2) : PointIn(t)
    /\ \E d \in Refs(3) : PointIn(d)

\* C2: in the result of a query on a parsed forest, a returned Village comes
\* with exactly its parent as Town and a returned Town with exactly its
\* parent as District (absent only when the Region has no parent).
C2_AncestryFollowsParents ==
    pc = "returned" =>
        /\ village # NoRef => town = RegionAt(Forest, village).parent
        /\ town # NoRef => district = RegionAt(Forest, town).parent

\* a query answered with a Village, its Town and its District
C2_Witness ==
    /\ qpc = "done"
    /\ village # NoRef /\ town # NoRef /\ district # NoRef
    /\ RegionAt(Forest, village).parent = town
    /\ RegionAt(Forest, town).parent = district

\* C3: the Region a tier matched geometrically (the Village of a Village
\* match, the Town of a Town-tier match, the District of a District-tier
\* match) always has a polygon, and that polygon holds the point.
C3_BoundarylessNeverMatched ==
    /\ village # NoRef => PointIn(village)
    /\ village = NoRef /\ town # NoRef => PointIn(town)
    /\ village = NoRef /\ town = NoRef /\ district # NoRef => PointIn(district)

\* a Village matched after a boundary-less Village was passed over, with a
\* boundary-less Town in the result as its ancestor
C3_Witness ==
    /\ qpc = "done"
    /\ village # NoRef
    /\ \E k \in 1..Len(Forest[1]) :
          k < village.idx /\ Forest[1][k].polygon = NoPolygon
    /\ town # NoRef
    /\ RegionAt(Forest, town).polygon = NoPolygon

-----------------------------------------------------------------------------
(* Properties of the linker of parse_kml_standard and of the forest *)

\* parse_kml has returned and no query has started yet
Returned == pc = "returned" /\ qpc = "idle"

StandardLinked == Returned /\ mode = "standard" /\ doc.wellformed

\* Domain of the linker's geometry: every polygon that standard mode builds
\* from the documents of Inputs is an axis-aligned rectangle, for which
\* poly_intersects and intersection_area2 are exact.
LinkerPolygonsAreRectangles ==
    mode = "standard" =>
        \A l \in 1..3 : \A k \in 1..Len(Forest[l]) :
            Forest[l][k].polygon # NoPolygon => IsRectangle(Forest[l][k].polygon)

\* both Regions have polygons, the polygons intersect and the intersection
\* covers at least half of the finer Region's area
HalfOrMore(finer, coarser) ==
    /\ finer.polygon # NoPolygon
    /\ coarser.polygon # NoPolygon
    /\ poly_intersects(finer.polygon, coarser.polygon)
    /\ 2 * intersection_area2(finer.polygon, coarser.polygon) >= area2(finer.polygon)

\* C4: after standard-mode linking a finer Region has a parent (and sits in
\* a coarser Region's children) only where both have polygons that intersect
\* in at least 50% of the finer Region's area; a finer Region with such a
\* candidate, an overlap of exactly 50% included, is linked; a Region
\* without polygon has no parent.
C4_OverlapThreshold ==
    StandardLinked =>
        \A l \in {1, 2} : \A k \in 1..Len(Forest[l]) :
            LET f == Forest[l][k]
            IN  /\ f.parent # NoRef =>
                       /\ f.parent \in Refs(l + 1)
                       /\ HalfOrMore(f, RegionAt(Forest, f.parent))
                /\ (\E c \in Refs(l + 1) : HalfOrMore(f, RegionAt(Forest, c)))
                       => f.parent # NoRef
                /\ \A c \in Refs(l + 1) :
                       InSeq(Ref(l, k), RegionAt(Forest, c).children)
                           => HalfOrMore(f, RegionAt(Forest, c))
                /\ f.polygon = NoPolygon => f.parent = NoRef

\* a Town linked on an overlap of exactly 50%, and a Town left out of the
\* children of a District it overlaps by less than 50%
C4_Witness ==
    /\ StandardLinked
    /\ \E t \in Refs(2) :
          LET f == RegionAt(Forest, t)
          IN  /\ f.parent # NoRef
              /\ area2(f.polygon) > 0
              /\ 2 * intersection_area2(f.polygon, RegionAt(Forest, f.parent).polygon)
                     = area2(f.polygon)
    /\ \E t \in Refs(2), d \in Refs(3) :
          LET f == RegionAt(Forest, t)
              c == RegionAt(Forest, d)
          IN  /\ f.polygon # NoPolygon /\ c.polygon # NoPolygon
              /\ intersection_area2(f.polygon, c.polygon) > 0
              /\ 2 * intersection_area2(f.polygon, c.polygon) < area2(f.polygon)
              /\ ~InSeq(t, c.children)
              /\ f.parent # d

\* C5: after standard-mode linking the parent of a finer Region is the first
\* coarser Region, in bucket order, that clears the 50% threshold.
C5_FirstCandidateWins ==
    StandardLinked =>
        \A l \in {1, 2} : \A k \in 1..Len(Forest[l]) :
            LET f == Forest[l][k]
                Q == {c \in 1..Len(Forest[l + 1]) : HalfOrMore(f, Forest[l + 1][c])}
            IN  Q # {} => f.parent = Ref(l + 1, Lo(Q))

AllRefs == Refs(1) \cup Refs(2) \cup Refs(3)

Up(ref) == IF ref = NoRef THEN NoRef ELSE RegionAt(Forest, ref).parent

\* C6: in a returned forest every Region sits in the bucket of its level,
\* a parent is a Region of the next coarser level, a District has no
\* parent, and the parent chain of any Region ends within two steps.
C6_ParentOneLevelCoarser ==
    Returned =>
        \A l \in 1..3 : \A k \in 1..Len(Forest[l]) :
            LET r == Forest[l][k]
            IN  /\ r.level = l
                /\ r.parent # NoRef => r.parent.level = l + 1 /\ r.parent \in Refs(l + 1)
                /\ l = 3 => r.parent = NoRef
                /\ Up(Up(Up(Ref(l, k)))) = NoRef

\* a linked forest with a Village whose parent chain has two steps
C6_Witness ==
    /\ StandardLinked
    /\ \E v \in Refs(1) : Up(v) \in Refs(2) /\ Up(Up(v)) \in Refs(3)

\* C7: in a returned forest a Region is in the children of P exactly when
\* its parent is P, and no Region is in the children of two Regions.
C7_SingleOwner ==
    Returned =>
        /\ \A r \in AllRefs, p \in AllRefs :
               InSeq(r, RegionAt(Forest, p).children) <=> RegionAt(Forest, r).parent = p
        /\ \A r \in AllRefs, p \in AllRefs, q \in AllRefs :
               /\ InSeq(r, RegionAt(Forest, p).children)
               /\ InSeq(r, RegionAt(Forest, q).children)
               => p = q

-----------------------------------------------------------------------------
(* Properties of the parsers *)

Count(seq, x) == Cardinality({k \in 1..Len(seq) : seq[k] = x})

\* C8: when the document is not well-formed XML, parse_kml in either mode
\* returns (it never stops elsewhere) with all three buckets empty and the
\* parse failure reported exactly once.
C8_ParseFailureEmptyForest ==
    ~doc.wellformed =>
        /\ pc \in {"parse_kml", "returned"}
        /\ pc = "parse_kml" => ENABLED ParseFailure
        /\ pc = "returned" =>
               /\ \A l \in 1..3 : regions_by_level[l] = <<>>
               /\ Count(log, MsgError) = 1

\* parse_kml has returned from a document that failed to parse, and a
\* query has run on the forest it returned
C8_Witness ==
    /\ ~doc.wellformed
    /\ pc = "returned"
    /\ qpc = "done"

\* the Placemark loop of parse_kml_standard has run to its end
StandardRead ==
    /\ mode = "standard"
    /\ doc.wellformed
    /\ pc \in {"link_towns", "link_villages", "returned"}
    /\ qpc = "idle"

\* the children of e with the tag name
NameChildren(e) ==
    SelectSeq(e.names, LAMBDA c : c[1] = "name")

\* the text of the first name child of a Placemark that has one
StandardName(pm) == NameChildren(pm)[1][2]

HasNameAndLevel(pm) ==
    /\ NameChildren(pm) # <<>>
    /\ StandardName(pm) # NoText
    /\ pm.width \in {"1", "2", "3"}

LevelOfWidth(w) == CASE w = "1" -> 1 [] w = "2" -> 2 [] w = "3" -> 3

\* the Placemarks of pms that select level l, in document order
Selected(pms, l) ==
    SelectSeq(pms, LAMBDA pm : HasNameAndLevel(pm) /\ LevelOfWidth(pm.width) = l)

\* bucket l holds one Region per element of pms, in the same order
BucketIs(l, pms) ==
    /\ Len(Forest[l]) = Len(pms)
    /\ \A k \in 1..Len(pms) :
          Forest[l][k].name = strip(StandardName(pms[k])) /\ Forest[l][k].level = l

TopLevelPlacemarks == SelectSeq(doc.items, LAMBDA e : e.tag = "Placemark")

RECURSIVE AllPlacemarks(_)
AllPlacemarks(items) ==
    IF items = <<>> THEN <<>>
    ELSE (IF Head(items).tag = "Placemark" THEN <<Head(items)>>
          ELSE AllPlacemarks(Head(items).items))
         \o AllPlacemarks(Tail(items))

\* C9 as stated: in standard mode each bucket holds exactly one Region per
\* top-level Placemark with a name and the width of that level.
C9_OneRegionPerTopLevelPlacemark ==
    StandardRead => \A l \in 1..3 : BucketIs(l, Selected(TopLevelPlacemarks, l))

\* C9 as amended: in standard mode each bucket holds exactly one Region per
\* Placemark, at any depth of the document, that has a name and the width
\* of that level (3 District, 2 Town, 1 Village); a Placemark with no
\* width, a non-integer width or another width yields no Region.
C9_OneRegionPerPlacemark ==
    StandardRead => \A l \in 1..3 : BucketIs(l, Selected(AllPlacemarks(doc.items), l))

\* a parsed document with a Placemark inside a Folder that yields a Region
\* and a named Placemark whose width selects no level
C9_Witness ==
    /\ StandardRead
    /\ pc = "returned"
    /\ \E k \in 1..Len(doc.items) :
          /\ doc.items[k].tag = "Folder"
          /\ \E n \in 1..Len(doc.items[k].items) : HasNameAndLevel(doc.items[k].items[n])
    /\ \E k \in 1..Len(doc.items) :
          /\ doc.items[k].tag = "Placemark"
          /\ find_name(doc.items[k]) # NoText
          /\ doc.items[k].width \in {"4", "2.0", NoText}
    /\ Len(Forest[1]) + Len(Forest[2]) + Len(Forest[3]) = 1

\* the points of a coordinate text, each bad token dropped on its own
RECURSIVE GoodPoints(_)
GoodPoints(text) ==
    IF text = <<>> THEN <<>>
    ELSE LET tok == Head(text)
         IN  IF Len(tok) >= 2 /\ IsFloat(tok[1]) /\ IsFloat(tok[2])
             THEN <<<<float(tok[1]), float(tok[2])>>>> \o GoodPoints(Tail(text))
             ELSE GoodPoints(Tail(text))

ExpectedPolygon(text) ==
    IF Len(GoodPoints(text)) >= 3 THEN GoodPoints(text) ELSE NoPolygon

\* the coordinate text each parser reads for a Placemark
StandardText(pm) == IF pm.coords = <<>> THEN <<>> ELSE pm.coords[1]

RECURSIVE NestedText(_)
NestedText(texts) ==
    IF texts = <<>> THEN <<>>
    ELSE IF Head(texts) # <<>> THEN Head(texts) ELSE NestedText(Tail(texts))

HasText(t) == t # NoText /\ t # " "

\* the name and n children of e that carry a text
TextChildren(e) == SelectSeq(e.names, LAMBDA c : HasText(c[2]))

HasName(e) == TextChildren(e) # <<>>

\* the name of a named Folder or Placemark
NestedName(e) == TextChildren(e)[1][2]

\* the Placemarks that nested mode turns into Villages, in document order
RECURSIVE NestedVillages(_)
NestedVillages(items) ==
    IF items = <<>> THEN <<>>
    ELSE (IF Head(items).tag = "Folder" /\ HasName(Head(items))
          THEN SelectSeq(Head(items).items, HasName) ELSE <<>>)
         \o NestedVillages(Tail(items))

NestedParsed ==
    mode = "nested" /\ doc.wellformed /\ doc.document /\ Returned

\* C10: in both modes every Placemark that yields a Region yields it whatever
\* bad tokens its coordinate list holds; the Region's polygon is made of the
\* valid points, in order, when at least 3 remain, and is absent otherwise.
C10_BadTokensSkipped ==
    /\ StandardRead =>
           \A l \in 1..3 :
               LET pms == Selected(AllPlacemarks(doc.items), l)
               IN  /\ Len(Forest[l]) = Len(pms)
                   /\ \A k \in 1..Len(pms) :
                          Forest[l][k].polygon = ExpectedPolygon(StandardText(pms[k]))
    /\ NestedParsed =>
           LET pms == NestedVillages(doc.items)
           IN  /\ Len(Forest[1]) = Len(pms)
               /\ \A k \in 1..Len(pms) :
                      Forest[1][k].polygon = ExpectedPolygon(NestedText(pms[k].coords))

\* a returned forest with a Village built from the four valid points of a
\* list with three bad tokens, and a Village kept without polygon because
\* only two valid points remained
C10_Witness ==
    /\ Returned
    /\ mode = "nested"
    /\ \E k \in 1..Len(Forest[1]) :
          /\ Forest[1][k].name = "V2"
          /\ Forest[1][k].polygon = <<<<4, 0>>, <<6, 0>>, <<6, 2>>, <<4, 2>>>>
    /\ \E k \in 1..Len(Forest[1]) :
          /\ Forest[1][k].name = "V3"
          /\ Forest[1][k].polygon = NoPolygon
          /\ Forest[1][k].parent # NoRef

-----------------------------------------------------------------------------
(* parse_kml_nested: the District *)

\* positions of the name fields under the Document with non-blank text
NamedFields == {k \in 1..Len(doc.names) : HasText(doc.names[k])}

\* those among them whose text holds none of xiang / zhen / cun
PlainFields == {k \in NamedFields : strip(doc.names[k]) \notin TownishTexts}

\* C11: in nested mode the District is named after the first name field
\* under the Document whose text holds none of the substrings xiang, zhen,
\* cun; when every non-blank name field holds one of them, after the first
\* non-blank name field; when there is no non-blank name field it gets the
\* placeholder name and the use of the default is printed (and only then).
C11_DistrictNameHeuristic ==
    NestedParsed =>
        /\ Len(Forest[3]) >= 1
        /\ PlainFields # {} =>
               Forest[3][1].name = strip(doc.names[Lo(PlainFields)])
        /\ PlainFields = {} /\ NamedFields # {} =>
               Forest[3][1].name = strip(doc.names[Lo(NamedFields)])
        /\ NamedFields = {} =>
               /\ Forest[3][1].name = UnknownDistrict
               /\ Count(log, MsgDefaultDistrict) = 1
        /\ NamedFields # {} => Count(log, MsgDefaultDistrict) = 0

\* a parsed document whose first name field is a Town name and whose second
\* is not: the District carries the second
C11_Witness ==
    /\ NestedParsed
    /\ doc.names = <<"A zhen", "Yihedui">>
    /\ Forest[3][1].name = "Yihedui"
    /\ Len(Forest[2]) >= 1

-----------------------------------------------------------------------------
(* parse_kml_nested: Towns and Villages *)

\* the Folders directly under the Document that have a name, in order
NamedFolders ==
    SelectSeq(doc.items, LAMBDA e : e.tag = "Folder" /\ HasName(e))

\* the named Placemarks directly under the t-th named Folder
VillagesOf(t) == SelectSeq(NamedFolders[t].items, HasName)

\* number of Villages that the named Folders before the t-th contribute
RECURSIVE VillagesBefore(_)
VillagesBefore(t) ==
    IF t <= 1 THEN 0 ELSE VillagesBefore(t - 1) + Len(VillagesOf(t - 1))

\* C12: after nested-mode parsing the Town bucket holds exactly one Town per
\* named Folder under the Document, in order, each with the District as
\* parent and listed in the District's children; the Village bucket holds
\* exactly one Village per named Placemark directly under a named Folder,
\* each with that Folder's Town as parent and listed in that Town's
\* children.  Nameless Folders, their Placemarks, nameless Placemarks and
\* Placemarks outside Folders yield no Region.
C12_NestedLinksMirrorStructure ==
    NestedParsed =>
        /\ Len(Forest[2]) = Len(NamedFolders)
        /\ Forest[3][1].children = [t \in 1..Len(NamedFolders) |-> Ref(2, t)]
        /\ Len(Forest[1]) = VillagesBefore(Len(NamedFolders) + 1)
        /\ \A t \in 1..Len(NamedFolders) :
              /\ Forest[2][t].name = strip(NestedName(NamedFolders[t]))
              /\ Forest[2][t].parent = Ref(3, 1)
              /\ Forest[2][t].children =
                     [k \in 1..Len(VillagesOf(t)) |-> Ref(1, VillagesBefore(t) + k)]
              /\ \A k \in 1..Len(VillagesOf(t)) :
                    LET v == Forest[1][VillagesBefore(t) + k]
                    IN  /\ v.name = strip(NestedName(VillagesOf(t)[k]))
                        /\ v.parent = Ref(2, t)
                        /\ v.children = <<>>

\* a parsed document with two named Folders, the second holding a named
\* Placemark: its Village hangs under the second Town
C12_Witness ==
    /\ NestedParsed
    /\ Len(Forest[2]) = 2
    /\ Len(Forest[1]) = 1
    /\ Forest[1][1].parent = Ref(2, 2)
    /\ Forest[2][2].children = <<Ref(1, 1)>>
    /\ Forest[2][1].children = <<>>

\* C13 as stated: nested-mode parsing of any well-formed document returns a
\* forest whose District bucket holds exactly one Region.
C13_ExactlyOneDistrict ==
    mode = "nested" /\ doc.wellformed /\ Returned => Len(Forest[3]) = 1

\* C13: nested-mode parsing of a well-formed document that has a Document
\* element returns a forest whose District bucket holds exactly one Region,
\* of level 3 and without parent; for a well-formed document without a
\* Document element it reports that once and returns the empty forest.
C13_OneDistrictPerDocumentElement ==
    /\ NestedParsed =>
           /\ Len(Forest[3]) = 1
           /\ Forest[3][1].level = 3
           /\ Forest[3][1].parent = NoRef
    /\ mode = "nested" /\ doc.wellformed /\ ~doc.document /\ Returned =>
           /\ Forest = EmptyForest
           /\ Count(log, MsgNoDocument) = 1

\* a parsed document with several name fields and several Folders, and one
\* District
C13_Witness ==
    /\ NestedParsed
    /\ Len(SelectSeq(doc.names, HasText)) = 2
    /\ Len(Forest[2]) = 2
    /\ Len(Forest[3]) = 1

-----------------------------------------------------------------------------
(* Repeated parse_kml calls on the same document and mode *)

\* the caller keeps the returned forest and calls parse_kml again with the
\* same arguments; the buckets of the new call are created by the parser
ParseAgain ==
    /\ pc = "returned"
    /\ Len(previous) + 1 < MaxCalls
    /\ previous' = Append(previous, regions_by_level)
    /\ pc' = "parse_kml"
    /\ i' = 1
    /\ UNCHANGED <<mode, doc, regions_by_level, log>>
    /\ UNCHANGED <<query_vars, organize_vars, script_vars>>

NextReparse ==
    \/ ParseFailure
    \/ StandardBegin
    \/ StandardPlacemark
    \/ StandardPlacemarksDone
    \/ LinkTown
    \/ LinkTownsDone
    \/ LinkVillage
    \/ StandardReturn
    \/ NestedNoDocument
    \/ NestedBegin
    \/ NestedChild
    \/ NestedReturn
    \/ ParseAgain

SpecReparse == Init /\ [][NextReparse]_vars

\* C14: every parse_kml call on the same document with the same mode returns
\* a forest equal to the one each earlier call returned: same Regions in
\* the same buckets, with the same names, levels, polygons, parents and
\* children.
C14_ParseDeterministic ==
    pc = "returned" =>
        \A k \in 1..Len(previous) : regions_by_level = previous[k]

\* the second call has returned, and the forest holds a linked Village
C14_Witness ==
    /\ pc = "returned"
    /\ Len(previous) = 1
    /\ \E v \in 1..Len(Forest[1]) :
          /\ Forest[1][v].parent # NoRef
          /\ Forest[1][v].polygon # NoPolygon
    /\ previous[1] = regions_by_level

-----------------------------------------------------------------------------
(* find_region_for_point as a query *)

\* C15: no step of a find_region_for_point call changes the forest, and the
\* result of every finished call, whatever calls ran before it, is the
\* result one call on the forest with that point gives.
C15_QueriesReadOnly ==
    /\ [][pc = "returned" => regions_by_level' = regions_by_level]_vars
    /\ [](qpc = "done" =>
             [village |-> village, town |-> town, district |-> district]
                 = find_region_for_point(point, regions_by_level))

\* a finished call that matched a Village of a nested forest, whose stored
\* District reference is still unset
C15_Witness ==
    /\ qpc = "done"
    /\ mode = "nested"
    /\ village # NoRef
    /\ district = Ref(3, 1)
    /\ RegionAt(Forest, village).district = NoRef

-----------------------------------------------------------------------------
(* Resolution scenarios *)

\* the point lies in the interior of the Region's polygon
StrictlyIn(ref) ==
    /\ RegionAt(Forest, ref).polygon # NoPolygon
    /\ contains(RegionAt(Forest, ref).polygon, point)

\* the Village has a Town as parent and that Town a District
FullyLinked(v) == Up(v) # NoRef /\ Up(Up(v)) # NoRef

\* the finished call returned Village v with its Town and its District
ResolvesTo(v) == village = v /\ town = Up(v) /\ district = Up(Up(v))

\* C19 as stated: a point strictly inside the polygon of a fully linked
\* Village and strictly inside no other Village polygon resolves to that
\* Village, its Town and its District.
C19_InteriorOfOneVillage ==
    qpc = "done" =>
        \A v \in Refs(1) :
            /\ FullyLinked(v)
            /\ StrictlyIn(v)
            /\ \A w \in Refs(1) \ {v} : ~StrictlyIn(w)
            => ResolvesTo(v)

\* the nested-mode document of the scenario: District Yihedui, one Folder
\* Town A, one Placemark Village 1 with the triangle (0,0) (1,0) (0,1); the
\* coordinates are in units of 1/15, so (0.2, 0.2) is the point <<3, 3>>
YiheduiDocument ==
    /\ mode = "nested"
    /\ doc = Doc(TRUE, TRUE, <<"Yihedui">>, Tree(<<FolderA, PmTri>>, <<>>))

\* C19: a point strictly inside the polygon of a fully linked Village and
\* neither inside nor on the boundary of any other Village polygon resolves
\* to that Village, its Town and its District; the Yihedui document resolves
\* (0.2, 0.2) to Village 1 / Town A / Yihedui.
C19_InteriorOfOneVillageNoTouch ==
    qpc = "done" =>
        /\ \A v \in Refs(1) :
              /\ FullyLinked(v)
              /\ StrictlyIn(v)
              /\ \A w \in Refs(1) \ {v} : ~PointIn(w)
              => ResolvesTo(v)
        /\ YiheduiDocument /\ point = <<3, 3>> =>
              /\ village # NoRef /\ RegionAt(Forest, village).name = "Village 1"
              /\ town # NoRef /\ RegionAt(Forest, town).name = "Town A"
              /\ district # NoRef /\ RegionAt(Forest, district).name = "Yihedui"

\* the scenario: (0.2, 0.2) has been resolved on the Yihedui document
C19_Witness ==
    /\ qpc = "done"
    /\ YiheduiDocument
    /\ point = <<3, 3>>
    /\ Forest[1][1].polygon = <<<<0, 0>>, <<15, 0>>, <<0, 15>>>>
    /\ ResolvesTo(Ref(1, 1))

\* the standard-mode document of the scenario: one width-3 Placemark with a
\* square polygon
SingleDistrictDocument ==
    /\ mode = "standard"
    /\ doc.wellformed
    /\ doc.items = <<PmD1>>

\* C20: when no Village polygon and no Town polygon holds the point but a
\* District polygon does, the call returns the first such District, no Town
\* and no Village; on the single-District document every point interior to
\* the square resolves to that District only.
C20_DistrictFallback ==
    qpc = "done" =>
        /\ /\ \A v \in Refs(1) : ~PointIn(v)
           /\ \A t \in Refs(2) : ~PointIn(t)
           /\ \E d \in Refs(3) : PointIn(d)
           => /\ village = NoRef
              /\ town = NoRef
              /\ district \in Refs(3)
              /\ PointIn(district)
              /\ \A d \in Refs(3) : PointIn(d) => district.idx <= d.idx
        /\ SingleDistrictDocument /\ StrictlyIn(Ref(3, 1)) =>
              /\ district = Ref(3, 1)
              /\ Forest[3][1].name = "D1"
              /\ town = NoRef
              /\ village = NoRef

\* a District-tier match on a forest whose Village and Town polygons all
\* miss the point
C20_Witness ==
    /\ qpc = "done"
    /\ district # NoRef /\ town = NoRef /\ village = NoRef
    /\ StrictlyIn(district)
    /\ \E v \in Refs(1) : RegionAt(Forest, v).polygon # NoPolygon
    /\ \E t \in Refs(2) : RegionAt(Forest, t).polygon # NoPolygon

\* the scenario: an interior point resolved on the single-District document
C20_ScenarioReached ==
    qpc = "done" /\ SingleDistrictDocument /\ StrictlyIn(Ref(3, 1)) /\ point = <<1, 1>>

-----------------------------------------------------------------------------
(* Properties of organize_photos *)

\* the photos the loop has handled so far
Handled == 1..processed

HasGps(k) == photo_files[k].lat # None /\ photo_files[k].lon # None

CopiesOf(k) == {c \in 1..Len(copies) : copies[c].photo = k}

LookupsOf(k) == {c \in 1..Len(lookups) : lookups[c].photo = k}

\* C16: a handled photo whose latitude or longitude is absent has exactly
\* one copy, in the no-coordinate directory (which is neither the
\* no-boundary-match directory nor a Region directory), no
\* find_region_for_point call was made for it, and with_gps counts exactly
\* the handled photos that have both.
C16_NoCoordinateBucket ==
    opc \in {"loop", "done"} =>
        /\ \A k \in Handled :
              ~HasGps(k) =>
                  /\ Cardinality(CopiesOf(k)) = 1
                  /\ \A c \in CopiesOf(k) : copies[c].dir = <<"wu GPS xinxi">>
                  /\ LookupsOf(k) = {}
        /\ with_gps = Cardinality({k \in Handled : HasGps(k)})
        /\ Len(lookups) = with_gps

\* a handled photo with latitude but no longitude, after a handled photo
\* with both
C16_Witness ==
    /\ opc = "done"
    /\ processed = 2
    /\ HasGps(1)
    /\ photo_files[2].lat # None /\ photo_files[2].lon = None
    /\ copies[2].dir = no_gps_dir
    /\ Len(lookups) = 1


\* the result find_region_for_point gives for the k-th photo
ResultOf(k) ==
    find_region_for_point(Point(photo_files[k].lon, photo_files[k].lat), Forest)

EmptyResult(r) == r.village = NoRef /\ r.town = NoRef /\ r.district = NoRef

\* the names of the Regions present in the result, coarsest first
NamesPresent(r) ==
    (IF r.district # NoRef THEN <<RegionAt(Forest, r.district).name>> ELSE <<>>)
    \o (IF r.town # NoRef THEN <<RegionAt(Forest, r.town).name>> ELSE <<>>)
    \o (IF r.village # NoRef THEN <<RegionAt(Forest, r.village).name>> ELSE <<>>)

\* C17: a handled photo with a coordinate is copied to the no-boundary-match
\* directory exactly when find_region_for_point returned no District, no
\* Town and no Village for its point, and otherwise to the directory whose
\* path is made of the names of the Regions present in the result.
C17_UnmatchedIffEmptyResult ==
    opc \in {"loop", "done"} =>
        \A k \in Handled :
            HasGps(k) =>
                \A c \in CopiesOf(k) :
                    /\ copies[c].dir = unmatched_dir <=> EmptyResult(ResultOf(k))
                    /\ ~EmptyResult(ResultOf(k)) =>
                           copies[c].dir = NamesPresent(ResultOf(k))

\* what the code does instead: the no-boundary-match directory is used
\* exactly when the result has no District, whatever Town or Village it has
UnmatchedIffNoDistrict ==
    opc \in {"loop", "done"} =>
        \A k \in Handled :
            HasGps(k) =>
                \A c \in CopiesOf(k) :
                    /\ copies[c].dir = unmatched_dir <=> ResultOf(k).district = NoRef
                    /\ ResultOf(k).district # NoRef =>
                           copies[c].dir = NamesPresent(ResultOf(k))

\* every file of source_dir with a supported extension, in scan order
Photos ==
    SelectSeq(source,
              LAMBDA f : f.name \in {"a.jpg", "b.JPG", "c.tif", "d.png"})

\* the directories a forest's Regions can give: one to three Region names
RegionDirs ==
    LET names == {RegionAt(Forest, ref).name : ref \in AllRefs}
    IN  UNION {[1..n -> names] : n \in 1..3}

\* C18: organize_photos reaches its end whatever the boundary document is,
\* and at its end every photo of the source folder has been handled once
\* and has exactly one copy (in a Region directory, the no-coordinate
\* directory or the no-boundary-match directory), and the reported counts
\* are the number of photos, of photos with a coordinate and of photos
\* matched down to a Village.
C18_BatchCompletes ==
    /\ <>(opc = "done")
    /\ [](opc = "done" =>
             /\ pc = "returned"
             /\ photo_files = Photos
             /\ processed = Len(Photos)
             /\ Len(copies) = Len(Photos)
             /\ \A k \in 1..Len(Photos) :
                   /\ copies[k].photo = k
                   /\ copies[k].file = Photos[k].name
                   /\ copies[k].dir \in RegionDirs \cup {no_gps_dir, unmatched_dir}
             /\ report = <<[total |-> Len(Photos),
                            with_gps |-> Cardinality({k \in 1..Len(Photos) : HasGps(k)}),
                            matched |-> Cardinality({k \in 1..Len(Photos) :
                                            HasGps(k) /\ Len(copies[k].dir) = 3})]>>)

\* the run on the document that fails to parse has ended: the photo has its
\* one copy in the no-coordinate or the no-boundary-match directory, and
\* the file that is no photo was left alone
C18_Witness ==
    /\ opc = "done"
    /\ ~doc.wellformed
    /\ Len(source) > Len(photo_files)
    /\ Len(copies) = 1
    /\ copies[1].dir \in {no_gps_dir, unmatched_dir}
    /\ report[1].total = 1

-----------------------------------------------------------------------------
(* Misses and first matches *)

\* C21: when the point lies in (or on the boundary of) no polygon of any
\* level, the finished call returns no District, no Town and no Village,
\* for forests of both modes and for the empty forest of a failed parse;
\* no Region is picked as the nearest one.
C21_OutsideResolvesToNothing ==
    qpc = "done" /\ (\A ref \in AllRefs : ~PointIn(ref)) =>
        district = NoRef /\ town = NoRef /\ village = NoRef

\* a finished call on a forest with a polygon at every level, none of which
\* holds the point
C21_Witness ==
    /\ qpc = "done"
    /\ point = <<9, 9>>
    /\ \A l \in 1..3 : \E ref \in Refs(l) : RegionAt(Forest, ref).polygon # NoPolygon
    /\ district = NoRef /\ town = NoRef /\ village = NoRef

\* the Villages whose polygon contains the point, touches it or intersects it
VillageHits ==
    {k \in 1..Len(Forest[1]) :
        /\ Forest[1][k].polygon # NoPolygon
        /\ \/ contains(Forest[1][k].polygon, point)
           \/ touches(Forest[1][k].polygon, point)
           \/ intersects(Forest[1][k].polygon, point)}

\* C22: once the Village tier has run, the Village of the result is the
\* first Village of the bucket whose polygon contains the point, touches it
\* on the boundary or intersects it (none when there is no such Village);
\* a point on an edge matches like an interior point, and a later Village
\* that matches too is never the result.
C22_FirstVillageWins ==
    pc = "returned" /\ qpc \in {"town", "district", "done"} =>
        /\ VillageHits # {} => village = Ref(1, Lo(VillageHits))
        /\ VillageHits = {} => village = NoRef

\* the point lies on an edge of the first Village and in the interior of
\* the second: the first is returned
C22_Witness ==
    /\ qpc = "done"
    /\ Len(Forest[1]) >= 2
    /\ touches(Forest[1][1].polygon, point)
    /\ ~contains(Forest[1][1].polygon, point)
    /\ contains(Forest[1][2].polygon, point)
    /\ village = Ref(1, 1)

-----------------------------------------------------------------------------
(* The District recorded in a Village *)

\* C27: after standard-mode linking, every Village that has a parent Town
\* carries as its recorded district exactly that Town's parent, and no
\* recorded district when that Town has no parent.
C27_RecordedDistrictIsGrandparent ==
    StandardLinked =>
        \A v \in Refs(1) :
            Up(v) # NoRef => RegionAt(Forest, v).district = Up(Up(v))

\* the recorded district is always the parent of some Town in whose
\* children the Village is listed
RecordedDistrictFromSomeTown ==
    StandardLinked =>
        \A v \in Refs(1) :
            RegionAt(Forest, v).district # NoRef =>
                \E t \in Refs(2) :
                    /\ InSeq(v, RegionAt(Forest, t).children)
                    /\ RegionAt(Forest, t).parent = RegionAt(Forest, v).district

-----------------------------------------------------------------------------
(* parse_kml_nested: the polygon of a Village *)

\* positions of the coordinates elements of pm whose text is not blank, in
\* the order of the depth-first walk
FilledCoords(pm) == {k \in 1..Len(pm.coords) : pm.coords[k] # <<>>}

\* C28: in nested mode every named Placemark of a named Folder is in the
\* Village bucket with its Folder's Town as parent, polygon or not; it has
\* a polygon exactly when its first non-blank coordinates element yields at
\* least 3 valid pairs, and the polygon is made of those pairs; later
\* coordinates elements play no part.
C28_FirstCoordinatesOnly ==
    NestedParsed =>
        LET pms == NestedVillages(doc.items)
        IN  /\ Len(Forest[1]) = Len(pms)
            /\ \A k \in 1..Len(pms) :
                  LET first == IF FilledCoords(pms[k]) = {} THEN <<>>
                               ELSE pms[k].coords[Lo(FilledCoords(pms[k]))]
                  IN  /\ Forest[1][k].parent \in Refs(2)
                      /\ InSeq(Ref(1, k), RegionAt(Forest, Forest[1][k].parent).children)
                      /\ Forest[1][k].polygon # NoPolygon <=> Len(GoodPoints(first)) >= 3
                      /\ Forest[1][k].polygon # NoPolygon =>
                             Forest[1][k].polygon = GoodPoints(first)

\* a Village whose first coordinates element gave two points and whose
\* second holds a full ring is in the bucket without polygon, next to a
\* Village whose ring came after a blank coordinates element
C28_Witness ==
    /\ NestedParsed
    /\ \E k \in 1..Len(Forest[1]) :
          /\ Forest[1][k].name = "V3"
          /\ Forest[1][k].polygon = NoPolygon
          /\ Forest[1][k].parent = Ref(2, 1)
          /\ Len(GoodPoints(NestedVillages(doc.items)[k].coords[2])) >= 3
    /\ \E k \in 1..Len(Forest[1]) :
          /\ NestedVillages(doc.items)[k].coords[1] = <<>>
          /\ Forest[1][k].polygon # NoPolygon

-----------------------------------------------------------------------------
(* organize_photos: parsing before querying *)

\* C26: in a run of organize_photos every find_region_for_point call is
\* made after parse_kml has returned (no Region is being bucketed or linked
\* any more), and from the first call on the forest, with every Region's
\* parent and children, stays as it is.
C26_ParseBeforeQuery ==
    /\ [](lookups # <<>> => pc = "returned")
    /\ [][lookups' # lookups => pc = "returned" /\ pc' = "returned"]_vars
    /\ [][lookups # <<>> => regions_by_level' = regions_by_level]_vars

\* the run has ended after two queries on a standard-mode forest with a
\* linked Village
C26_Witness ==
    /\ opc = "done"
    /\ mode = "standard"
    /\ Len(lookups) = 2
    /\ \E v \in Refs(1) : FullyLinked(v)

-----------------------------------------------------------------------------
(* Order of the elements in a standard-mode document *)

NameOf(forest, ref) == IF ref = NoRef THEN NoText ELSE RegionAt(forest, ref).name

\* the forest without the order of its buckets and children lists: per
\* level the set of Regions, each with the names of its parent and children
Unordered(forest) ==
    [l \in 1..3 |->
        {[name |-> forest[l][k].name,
          polygon |-> forest[l][k].polygon,
          parent |-> NameOf(forest, forest[l][k].parent),
          children |-> {NameOf(forest, forest[l][k].children[c]) :
                            c \in 1..Len(forest[l][k].children)}] :
            k \in 1..Len(forest[l])}]

\* both calls have returned
BothParsed == pc = "returned" /\ previous # <<>>

\* C25 as stated: the parse of a document and the parse of any reordering
\* of its Placemarks give the same Regions per level with the same parent
\* and children links.
C25_OrderIndependent ==
    BothParsed => Unordered(regions_by_level) = Unordered(previous[1])

\* coarser Regions of level l + 1 that the Region k of level l qualifies for
Candidates(forest, l, k) ==
    {c \in 1..Len(forest[l + 1]) : qualifies(forest[l][k], forest[l + 1][c])}

\* no Town qualifies for two Districts and no Village for two Towns
Unambiguous(forest) ==
    \A l \in 1..2 : \A k \in 1..Len(forest[l]) :
        Cardinality(Candidates(forest, l, k)) <= 1

\* C25: the parse of a document and the parse of any reordering of its
\* Placemarks give the same Regions per level; they give the same parent
\* and children links whenever no Town qualifies for more than one District
\* and no Village for more than one Town.
C25_OrderIndependentWhenUnambiguous ==
    BothParsed =>
        /\ \A l \in 1..3 :
              {<<r.name, r.polygon>> : r \in {regions_by_level[l][k] :
                                                  k \in 1..Len(regions_by_level[l])}}
              = {<<r.name, r.polygon>> : r \in {previous[1][l][k] :
                                                    k \in 1..Len(previous[1][l])}}
        /\ Unambiguous(regions_by_level) =>
              Unordered(regions_by_level) = Unordered(previous[1])

\* two Districts met in the two orders and a Town that qualifies for the
\* second of the first parse only: both parses link it to that District
C25_Witness ==
    /\ BothParsed
    /\ Len(Forest[3]) = 2
    /\ Forest[3][1].name = previous[1][3][2].name
    /\ Forest[3][1].name # Forest[3][2].name
    /\ Unambiguous(Forest)
    /\ Len(Forest[2]) = 1
    /\ Forest[2][1].parent = Ref(3, 1)
    /\ previous[1][2][1].parent = Ref(3, 2)

-----------------------------------------------------------------------------

\* remove_different_files

Stems(names) == {stem(n) : n \in names}

\* the stems both folders held when the call started
StemsInBoth == Stems(before1) \cap Stems(before2)

\* a finished run that was not a preview and in which no unlink or move
\* raised
RemovedForReal == rdf_pc = "done" /\ ~dry_run /\ failed = {}

\* of the files a folder held, exactly those whose stem was in both are left
KeptExactlyCommon(folder, before) ==
    /\ Stems(folder.files) = StemsInBoth
    /\ \A n \in before : n \in folder.files <=> stem(n) \in StemsInBoth

\* C23 as stated: after a run of remove_different_files that is no preview
\* and in which no file operation failed, the two folders hold files for
\* exactly the stems both held before; the files of those stems are all
\* still there and the files of the other stems are gone.
C23_SameStemsAfter ==
    RemovedForReal =>
        /\ KeptExactlyCommon(folder1, before1)
        /\ KeptExactlyCommon(folder2, before2)

\* C23 amended: the same, for a call that found both folders.
C23_SameStemsAfterWhenBothExist ==
    (RemovedForReal /\ folder1.exists /\ folder2.exists) =>
        /\ KeptExactlyCommon(folder1, before1)
        /\ KeptExactlyCommon(folder2, before2)

\* a finished run without failure that kept a.jpg and a.txt, one in each
\* folder, and removed a file from each
C23_Witness ==
    /\ RemovedForReal
    /\ before1 = {<<"a", "jpg">>, <<"b", "jpg">>}
    /\ before2 = {<<"a", "txt">>, <<"", "c">>}
    /\ locked = {}
    /\ folder1.files = {<<"a", "jpg">>}
    /\ folder2.files = {<<"a", "txt">>}

\* nothing on disk differs from the start of the call
NothingChanged ==
    /\ folder1.files = before1
    /\ folder2.files = before2
    /\ backup_tree.dirs = {}
    /\ backup_tree.folder1_removed = {}
    /\ backup_tree.folder2_removed = {}

\* C24: a preview (dry_run true) changes nothing, whatever the folders hold
\* and whether or not a backup directory is given: no file leaves its
\* folder and no backup directory is made; nor does a call that finds one
\* of the folders missing change anything.
C24_DryRunChangesNothing ==
    (rdf_pc # "off" /\ (dry_run \/ ~folder1.exists \/ ~folder2.exists))
        => NothingChanged

\* a finished preview with a backup directory, in which each folder held a
\* file whose stem the other one lacked
C24_Witness ==
    /\ rdf_pc = "done"
    /\ dry_run
    /\ backup_dir # None
    /\ files_only_in_folder1 # {}
    /\ files_only_in_folder2 # {}
    /\ folder1.files = before1

-----------------------------------------------------------------------------

\* 2-remove_zero_kb_files

\* the empty .txt files the labels folder held at the start
ZeroLabels ==
    {n \in DOMAIN labels_before : endswith_txt(n) /\ labels_before[n] = 0}

\* the images that left the images folder
ImagesGone == images_before \ images_dir

\* the image names of a label, in the order jpg, jpeg, png
ImageNames(label) ==
    [k \in 1..Len(image_exts) |->
        image_file(splitext_root(label), image_exts[k])]

\* the image is the first of the label's image names the images folder held
FirstHeld(label, image) ==
    \E k \in 1..Len(image_exts) :
        /\ ImageNames(label)[k] = image
        /\ image \in images_before
        /\ \A j \in 1..(k - 1) : ImageNames(label)[j] \notin images_before

\* the image carries the stem of an empty label
HasZeroLabel(image) ==
    \E l \in ZeroLabels : splitext_root(l) = splitext_root(image)

\* C29: the pruning loop deletes exactly the empty .txt files of the labels
\* folder; for each of them at most one image leaves the images folder for
\* the undetected folder, the first that exists among stem.jpg, stem.jpeg
\* and stem.png; the labels of non-zero size, and the images whose label is
\* non-empty or missing, stay where they were.
C29_PruneExactlyZeroLabels ==
    prune_pc \in {"kml", "done"} =>
        /\ DOMAIN labels_dir = DOMAIN labels_before \ ZeroLabels
        /\ \A n \in DOMAIN labels_dir : labels_dir[n] = labels_before[n]
        /\ prune_pc = "kml" => images_dir \subseteq images_before
        /\ \A l \in ZeroLabels :
               LET gone == {c \in ImagesGone :
                               \E k \in 1..Len(image_exts) : ImageNames(l)[k] = c}
               IN  /\ Cardinality(gone) <= 1
                   /\ \A c \in gone :
                          FirstHeld(l, c) /\ c \in unchecked_dir.files
                   /\ (\E c \in images_before : FirstHeld(l, c)) => gone # {}
        /\ \A n \in ImagesGone : HasZeroLabel(n)

\* a finished run on the labels a.txt (empty) and b.txt (5 bytes) and the
\* images a.jpeg, a.png and b.png: a.txt is deleted, a.jpeg is moved
C29_Witness ==
    /\ prune_pc = "done"
    /\ labels_before = (<<"a", "txt">> :> 0) @@ (<<"b", "txt">> :> 5)
    /\ images_before = {<<"a", "jpeg">>, <<"a", "png">>, <<"b", "png">>}
    /\ DOMAIN labels_dir = {<<"b", "txt">>}
    /\ images_dir = {<<"a", "png">>, <<"b", "png">>}
    /\ <<"a", "jpeg">> \in unchecked_dir.files

-----------------------------------------------------------------------------

\* 3-draw_yolo_boxes_gui

\* C30: once processing_completed(True) has run, the progress bar shows 100
\* until the next run starts, whatever the interleaving of the worker, the
\* progress_update_loop thread and the Tk event loop: no update_progress_bar
\* with a lower percentage runs after it.
C30_BarStaysAt100 ==
    succeeded => progress_bar = 100

\* the window is open, the run has succeeded and the bar has fallen back to the percentage of an
\* item the loop took from the queue before it saw the stop flag
C30_StaleUpdateAfterCompletion ==
    /\ root = "mainloop"
    /\ succeeded
    /\ gui_run = 1
    /\ progress_bar < 100
    /\ worker.pc = "dead"

====
